---- MODULE Spec2Model ----
(***************************************************************************)
(* offpass: a client-side encrypted credential vault.                      *)
(*                                                                         *)
(* The model covers the crypto helpers (lib/crypto), the IndexedDB vault   *)
(* store (lib/storage.ts), the VaultService (lib/vault) and the React      *)
(* session provider (lib/context.tsx).  Every VaultService function is an  *)
(* async function: it is modelled as a call in a slot of `calls` whose pc  *)
(* advances one storage round trip (getVault / saveVault / deleteVault)    *)
(* at a time, so that calls in different slots interleave exactly at the   *)
(* awaits on the store.                                                    *)
(***************************************************************************)
EXTENDS Integers, Sequences, FiniteSets, TLC

(* ------------------------------ bounds --------------------------------- *)

\* Number of random draws (UUIDs, salts, ivs) a run may make.
MaxRand == 6

\* Number of random draws a run of the session may make.
MaxSessionRand == 5

\* Number of random draws a run of addCredential calls may make.
MaxAddRand == 7

\* Number of random draws a run of calls racing with removeVault may make.
MaxRemoveRand == 4

\* Number of random draws a run of credential and settings calls may make.
MaxCredRand == 8

\* Number of random draws a run of importData calls may make.
MaxImportRand == 4

\* Largest length passed to generatePassword.
MaxLength == 3

\* Largest length of the passwords passed to checkPasswordStrength.
MaxPasswordLength == 13

\* Random draws in a run of the session with two actions in flight.
MaxOverlapRand == 6

\* The auto-lock timeout of the default settings, in minutes: the 15 of the
\* source scaled down, and the largest timeout a caller sets.
MaxTimeout == 2

\* Random draws in a run of the session that creates and deletes vaults.
MaxDeleteRand == 6

\* Random draws in a run of the session with its auto-lock timer.
MaxLockRand == 5

\* Largest value of the clock read by Date.now().
MaxClock == 1

(* --------------------------- input domains ----------------------------- *)

\* The passwords callers pass to the VaultService.
Passwords == {"hunter2", "swordfish"}

\* The new passwords callers pass to changeMasterPassword.
NewPasswords == Passwords \cup {"fresh"}

Names == {"Personal"}

Undefined == "undefined"

\* Credential forms submitted by callers (Omit<Credential, id|createdAt|lastModified>).
CredentialInputs ==
    { [title |-> "Email", url |-> Undefined],
      [title |-> "Bank",  url |-> "https://bank"] }

\* JSON.parse("null"): what a ciphertext of a null VaultData decrypts to.
NullData == [isNull |-> TRUE]

\* `null` for the session's object-valued state (currentVault).
NullVault == [isNull |-> TRUE]

\* `null` for the session's masterPassword.
NullPassword == "null"

\* Error messages thrown by the code.
NoError            == "null"
ErrVaultNotFound   == "Vault not found"
ErrIncorrect       == "Incorrect master password or corrupted data"
ErrUpdate          == "Failed to update vault"
ErrCredNotFound    == "Credential not found"
ErrRetrieve        == "Failed to retrieve vault"
ErrSave            == "Failed to save vault"
ErrDelete          == "Failed to delete vault"
ErrTypeError       == "TypeError"
ErrNoVaultOpen     == "No vault is open"
ErrNotOpenMismatch == "Vault not open or mismatch"
ErrInvalidBackup   == "Invalid backup format"
ErrSyntaxError     == "SyntaxError"
ErrSaveSettings    == "Failed to save settings"
ErrOperation       == "OperationError"
ErrOpenDatabase    == "Failed to open database"
ErrNoCharType      == "At least one character type must be selected"

(* ------------------------------ crypto --------------------------------- *)

\* crypto.getRandomValues / crypto.randomUUID: the n-th draw of the run.
RandomBytes(n) == <<n>>

\* generateKeyFromPassword called without a salt.
NoSalt == <<>>

\* crypto.randomUUID(): the id made from the n-th draw of the run.
RandomUUID(n) == <<n>>

\* generateKeyFromPassword(password, salt?): PBKDF2 is a deterministic
\* function of (password, salt); a missing salt is drawn at random.
GenerateKeyFromPassword(password, salt, draw) ==
    LET s == IF salt = NoSalt THEN RandomBytes(draw) ELSE salt
    IN  [key |-> [password |-> password, salt |-> s], salt |-> s]

OptionalKeys == {"url"}

\* A slip in JSON.stringify: the optional members are never written.
StringifyCredential_DropsOptional(c) ==
    [k \in (DOMAIN c) \ OptionalKeys |-> c[k]]

\* JSON.stringify of one credential: members whose value is undefined are
\* omitted from the text.
StringifyCredential(c) ==
    LET keep == {k \in DOMAIN c : ~(k \in OptionalKeys /\ c[k] = Undefined)}
    IN  [k \in keep |-> c[k]]

\* JSON.stringify(data) as used by encrypt.
JSONStringify(data) ==
    IF data = NullData
    THEN [json |-> "null"]
    ELSE [json |-> "object",
          credentials |-> [i \in DOMAIN data.credentials |->
                              StringifyCredential(data.credentials[i])],
          settings |-> data.settings]

\* JSON.parse(text) as used by decrypt.
JSONParse(text) ==
    IF text.json = "null"
    THEN NullData
    ELSE [credentials |-> text.credentials, settings |-> text.settings]

\* encrypt(key, data): AES-256-GCM under a freshly drawn 12-byte iv.
Encrypt(key, data, draw) ==
    LET iv == RandomBytes(draw)
    IN  [encryptedData |-> [key |-> key, iv |-> iv, text |-> JSONStringify(data)],
         iv |-> iv]

\* crypto.subtle.decrypt succeeds only when the GCM tag verifies: same key
\* and same iv as the encryption that produced the bytes.
DecryptOk(key, encryptedData, iv) ==
    encryptedData.key = key /\ encryptedData.iv = iv

\* decrypt<T>(key, encryptedData, iv), when it does not throw.
Decrypt(key, encryptedData, iv) == JSONParse(encryptedData.text)

\* arrayBufferToBase64 / base64ToArrayBuffer.
ArrayBufferToBase64(buffer) == [base64 |-> buffer]

Base64ToArrayBuffer(base64) == base64.base64

\* A stored string that is not base64: decodeBase64 throws on it.
InvalidBase64 == [invalid |-> TRUE]

\* base64ToArrayBuffer(base64) does not throw.
Decodes(base64) == "base64" \in DOMAIN base64

\* The key of bytes that are not the output of any encryption.
NoKey == [password |-> "null", salt |-> <<>>]

\* Ciphertext bytes changed or cut after the encryption: their GCM tag
\* verifies under no key.
DamagedBytes(encryptedData) == [encryptedData EXCEPT !.key = NoKey]

\* Bytes of an iv or a salt that no draw of the run produced.
OtherBytes == <<0>>


(* ------------------------- objects and store --------------------------- *)

\* An object with no members.
EmptyObject == [k \in {} |-> Undefined]

\* Object spread { ...a, ...b }.
Spread(a, b) ==
    [k \in (DOMAIN a) \cup (DOMAIN b) |-> IF k \in DOMAIN b THEN b[k] ELSE a[k]]

\* store.put(vault) on the 'vaults' object store (keyPath 'id'): an upsert.
Put(st, vault) ==
    [k \in (DOMAIN st) \cup {vault.id} |-> IF k = vault.id THEN vault ELSE st[k]]

\* store.delete(id) on the 'vaults' object store.
Delete(st, id) == [k \in (DOMAIN st) \ {id} |-> st[k]]

\* `null` for the settings member of a backup (getSettings found no record).
NullSettings == [isNull |-> TRUE]

\* The key of the one record of the 'settings' object store.
AppSettingsId == "app-settings"

\* saveSettings: the record put, { id: 'app-settings', ...settings }.
SettingsRecord(settings) == Spread([id |-> AppSettingsId], settings)

\* getSettings(): the record under 'app-settings', or null.
GetSettings(st) == IF AppSettingsId \in DOMAIN st THEN st[AppSettingsId] ELSE NullSettings

(* --------------------------- VaultService ------------------------------ *)

DefaultCategories == <<"Login", "Financial", "Personal", "Work">>

\* A slip in createVault: a default category outside the category list.
DefaultVaultData_OtherDefault ==
    [credentials |-> <<>>,
     settings |-> [autoLockTimeout |-> 15,
                   categories |-> DefaultCategories,
                   defaultCategory |-> "General"]]

\* createVault: the empty vault data.
DefaultVaultData ==
    [credentials |-> <<>>,
     settings |-> [autoLockTimeout |-> 15,
                   categories |-> DefaultCategories,
                   defaultCategory |-> "Login"]]

\* createVault: the record built from a fresh id, salt and iv.
NewEncryptedVault(name, masterPassword, draw, t) ==
    LET k   == GenerateKeyFromPassword(masterPassword, NoSalt, draw + 1)
        enc == Encrypt(k.key, DefaultVaultData, draw + 2)
    IN  [id            |-> RandomUUID(draw),
         name          |-> name,
         encryptedData |-> ArrayBufferToBase64(enc.encryptedData),
         iv            |-> ArrayBufferToBase64(enc.iv),
         salt          |-> ArrayBufferToBase64(k.salt),
         createdAt     |-> t,
         lastAccessed  |-> t,
         lastModified  |-> t]

\* openVault: the key derived from the given password and the stored salt.
OpenKey(encryptedVault, masterPassword) ==
    GenerateKeyFromPassword(masterPassword,
                            Base64ToArrayBuffer(encryptedVault.salt), 0).key

\* A slip in openVault: a cipher without authentication, which decrypts under
\* any key.
OpenDecrypts_Unauthenticated(encryptedVault, masterPassword) ==
    Base64ToArrayBuffer(encryptedVault.encryptedData).iv
       = Base64ToArrayBuffer(encryptedVault.iv)

\* A slip in openVault: the stored iv is not the one passed to decrypt, which
\* gets the iv the ciphertext was made with.
OpenDecrypts_IgnoresIv(encryptedVault, masterPassword) ==
    /\ Decodes(encryptedVault.encryptedData)
    /\ Decodes(encryptedVault.iv)
    /\ Decodes(encryptedVault.salt)
    /\ DecryptOk(OpenKey(encryptedVault, masterPassword),
                 Base64ToArrayBuffer(encryptedVault.encryptedData),
                 Base64ToArrayBuffer(encryptedVault.encryptedData).iv)

\* openVault, lines 80-88: do the three decodes and the decrypt of the
\* stored record succeed?
OpenDecrypts(encryptedVault, masterPassword) ==
    /\ Decodes(encryptedVault.encryptedData)
    /\ Decodes(encryptedVault.iv)
    /\ Decodes(encryptedVault.salt)
    /\ DecryptOk(OpenKey(encryptedVault, masterPassword),
                 Base64ToArrayBuffer(encryptedVault.encryptedData),
                 Base64ToArrayBuffer(encryptedVault.iv))

\* openVault: the decrypted vault data.
OpenData(encryptedVault, masterPassword) ==
    Decrypt(OpenKey(encryptedVault, masterPassword),
            Base64ToArrayBuffer(encryptedVault.encryptedData),
            Base64ToArrayBuffer(encryptedVault.iv))

\* A slip in openVault: the check for an absent record is inside the try
\* block, whose catch throws the generic error.
OpenResult_AbsentInsideTry(st, id, masterPassword) ==
    IF id \notin DOMAIN st \/ ~OpenDecrypts(st[id], masterPassword)
    THEN [err |-> ErrIncorrect, data |-> NullData]
    ELSE [err |-> NoError, data |-> OpenData(st[id], masterPassword)]

\* openVault, lines 73-89, against the store st: the error it throws, or the
\* data it decrypts.
OpenResult(st, id, masterPassword) ==
    IF id \notin DOMAIN st
    THEN [err |-> ErrVaultNotFound, data |-> NullData]
    ELSE IF ~OpenDecrypts(st[id], masterPassword)
    THEN [err |-> ErrIncorrect, data |-> NullData]
    ELSE [err |-> NoError, data |-> OpenData(st[id], masterPassword)]

\* The Vault metadata object returned by openVault, updateVault and getVaults.
VaultMeta(encryptedVault, accessed) ==
    [id           |-> encryptedVault.id,
     name         |-> encryptedVault.name,
     createdAt    |-> encryptedVault.createdAt,
     lastAccessed |-> accessed,
     lastModified |-> encryptedVault.lastModified]

\* A slip in openVault: the record written back has its iv taken from its salt.
OpenedVault_MixesFields(encryptedVault, accessed) ==
    [encryptedVault EXCEPT !.lastAccessed = accessed, !.iv = encryptedVault.salt]

\* A slip in openVault: lastModified is stamped with lastAccessed.
OpenedVault_StampsModified(encryptedVault, accessed) ==
    [encryptedVault EXCEPT !.lastAccessed = accessed, !.lastModified = accessed]

\* openVault: the record written back, the one read with a new lastAccessed.
OpenedVault(encryptedVault, accessed) ==
    [encryptedVault EXCEPT !.lastAccessed = accessed]

\* updateVault: newName || encryptedVault.name.
NameOr(newName, oldName) ==
    IF newName = Undefined \/ newName = "" THEN oldName ELSE newName

\* A slip in updateVault: the data read back from the record is encrypted in
\* place of the data passed.
UpdatedVault_KeepsData(encryptedVault, masterPassword, data, newName, draw, t) ==
    LET k   == GenerateKeyFromPassword(masterPassword,
                                       Base64ToArrayBuffer(encryptedVault.salt), 0)
        enc == Encrypt(k.key,
                       JSONParse(Base64ToArrayBuffer(encryptedVault.encryptedData).text),
                       draw)
    IN  [encryptedVault EXCEPT
            !.name          = NameOr(newName, encryptedVault.name),
            !.encryptedData = ArrayBufferToBase64(enc.encryptedData),
            !.iv            = ArrayBufferToBase64(enc.iv),
            !.lastModified  = t,
            !.lastAccessed  = t]

\* A slip in updateVault: createdAt is stamped like the other timestamps.
UpdatedVault_StampsCreatedAt(encryptedVault, masterPassword, data, newName, draw, t) ==
    LET k   == GenerateKeyFromPassword(masterPassword,
                                       Base64ToArrayBuffer(encryptedVault.salt), 0)
        enc == Encrypt(k.key, data, draw)
    IN  [encryptedVault EXCEPT
            !.name          = NameOr(newName, encryptedVault.name),
            !.encryptedData = ArrayBufferToBase64(enc.encryptedData),
            !.iv            = ArrayBufferToBase64(enc.iv),
            !.createdAt     = t,
            !.lastModified  = t,
            !.lastAccessed  = t]

\* A slip in updateVault: lastAccessed is not stamped with lastModified.
UpdatedVault_KeepsAccessed(encryptedVault, masterPassword, data, newName, draw, t) ==
    LET k   == GenerateKeyFromPassword(masterPassword,
                                       Base64ToArrayBuffer(encryptedVault.salt), 0)
        enc == Encrypt(k.key, data, draw)
    IN  [encryptedVault EXCEPT
            !.name          = NameOr(newName, encryptedVault.name),
            !.encryptedData = ArrayBufferToBase64(enc.encryptedData),
            !.iv            = ArrayBufferToBase64(enc.iv),
            !.lastModified  = t]

\* updateVault: the record built from the one read, the given password and
\* the new data.  The key comes from the stored salt and the password passed.
UpdatedVault(encryptedVault, masterPassword, data, newName, draw, t) ==
    LET k   == GenerateKeyFromPassword(masterPassword,
                                       Base64ToArrayBuffer(encryptedVault.salt), 0)
        enc == Encrypt(k.key, data, draw)
    IN  [encryptedVault EXCEPT
            !.name          = NameOr(newName, encryptedVault.name),
            !.encryptedData = ArrayBufferToBase64(enc.encryptedData),
            !.iv            = ArrayBufferToBase64(enc.iv),
            !.lastModified  = t,
            !.lastAccessed  = t]

\* A slip in changeMasterPassword: the new iv is not stored.
RotatedVault_KeepsIv(existingVault, newPassword, data, draw, t) ==
    LET k   == GenerateKeyFromPassword(newPassword, NoSalt, draw)
        enc == Encrypt(k.key, data, draw + 1)
    IN  [existingVault EXCEPT
            !.encryptedData = ArrayBufferToBase64(enc.encryptedData),
            !.salt          = ArrayBufferToBase64(k.salt),
            !.lastModified  = t,
            !.lastAccessed  = t]

\* A slip in changeMasterPassword: the new salt is not stored.
RotatedVault_KeepsSalt(existingVault, newPassword, data, draw, t) ==
    LET k   == GenerateKeyFromPassword(newPassword, NoSalt, draw)
        enc == Encrypt(k.key, data, draw + 1)
    IN  [existingVault EXCEPT
            !.encryptedData = ArrayBufferToBase64(enc.encryptedData),
            !.iv            = ArrayBufferToBase64(enc.iv),
            !.lastModified  = t,
            !.lastAccessed  = t]

\* changeMasterPassword: the record built from the one re-read, a new salt
\* and key for the new password, and the data decrypted by openVault.
RotatedVault(existingVault, newPassword, data, draw, t) ==
    LET k   == GenerateKeyFromPassword(newPassword, NoSalt, draw)
        enc == Encrypt(k.key, data, draw + 1)
    IN  [existingVault EXCEPT
            !.encryptedData = ArrayBufferToBase64(enc.encryptedData),
            !.iv            = ArrayBufferToBase64(enc.iv),
            !.salt          = ArrayBufferToBase64(k.salt),
            !.lastModified  = t,
            !.lastAccessed  = t]

\* A slip in addCredential: createdAt is left at zero.
NewCredential_ZeroCreatedAt(credential, uuid, t) ==
    Spread(credential, [id |-> uuid, createdAt |-> 0, lastModified |-> t])

\* addCredential: the credential with its id and timestamps.
NewCredential(credential, uuid, t) ==
    Spread(credential, [id |-> uuid, createdAt |-> t, lastModified |-> t])

\* A slip in addCredential: unshift in place of push.
PushCredential_Unshift(data, credential) ==
    [data EXCEPT !.credentials = <<credential>> \o @]

\* addCredential: data.credentials.push(newCredential).
PushCredential(data, credential) ==
    [data EXCEPT !.credentials = Append(@, credential)]

\* updateCredential: data.credentials.findIndex(c => c.id === credentialId),
\* 1-based; 0 stands for -1.
FindIndex(credentials, credentialId) ==
    IF \E i \in DOMAIN credentials : credentials[i].id = credentialId
    THEN CHOOSE i \in DOMAIN credentials :
            /\ credentials[i].id = credentialId
            /\ \A j \in DOMAIN credentials :
                  credentials[j].id = credentialId => i <= j
    ELSE 0

\* A slip in updateCredential: the credential is spread over the updates.
UpdatedCredential_SpreadOrder(credential, updates, t) ==
    Spread(Spread(updates, credential), [lastModified |-> t])

\* updateCredential: { ...data.credentials[index], ...updates, lastModified }.
UpdatedCredential(credential, updates, t) ==
    Spread(Spread(credential, updates), [lastModified |-> t])

\* updateCredential: data.credentials[index] = updatedCredential.
ReplaceCredential(data, index, credential) ==
    [data EXCEPT !.credentials[index] = credential]

\* A slip in deleteCredential: the filter keeps the matching credential.
FilterCredentials_KeepsMatch(data, credentialId) ==
    [data EXCEPT !.credentials = SelectSeq(@, LAMBDA c : c.id = credentialId)]

\* deleteCredential: data.credentials.filter(c => c.id !== credentialId).
FilterCredentials(data, credentialId) ==
    [data EXCEPT !.credentials = SelectSeq(@, LAMBDA c : c.id # credentialId)]

\* A slip in updateVaultSettings: the settings passed replace the stored ones.
MergeSettings_Replaces(data, settings) ==
    [data EXCEPT !.settings = settings]

\* updateVaultSettings: data.settings = { ...data.settings, ...settings }.
MergeSettings(data, settings) ==
    [data EXCEPT !.settings = Spread(@, settings)]

(* ------------------------------- state --------------------------------- *)

VARIABLES
    store,          \* the 'vaults' object store: vault id -> EncryptedVault
    settingsStore,  \* the 'settings' object store: record id -> settings record
    calls,          \* the async calls in flight, one per slot
    now,            \* the clock read by Date.now()
    rnd,            \* number of random draws made so far
    known,          \* the vault ids createVault has returned
    added,          \* history: per vault, the ids addCredential has returned
    currentVault,   \* session state (PasswordManagerProvider)
    vaultData,
    masterPassword,
    isLocked,
    error,
    appSettings,    \* session state: settings, the AppSettings
    autoLockTimer,  \* session state: the id setAutoLockTimer stored, or null
    timers,         \* the timeouts of the window that are pending
    cleanup         \* the timeout id the last effect's cleanup will clear

timerVars == <<appSettings, autoLockTimer, timers, cleanup>>

sessionVars == <<currentVault, vaultData, masterPassword, isLocked, error,
                 appSettings, autoLockTimer, timers, cleanup>>

vars == <<store, settingsStore, calls, now, rnd, known, added, currentVault,
          vaultData, masterPassword, isLocked, error, appSettings,
          autoLockTimer,
          timers, cleanup>>

\* The slots for calls that are in flight together.
Procs == {1, 2}

\* No timeout id: the null of autoLockTimer.
NullTimer == <<>>

\* defaultSettings, lines 70-73.
DefaultSettings == [darkMode |-> FALSE, autoLockTimeout |-> MaxTimeout]

\* An id no vault and no credential ever has.
NoId == <<>>

\* The closure a session action captured when it was invoked.
Closure ==
    [currentVault |-> currentVault, vaultData |-> vaultData,
     masterPassword |-> masterPassword, isLocked |-> isLocked]

IdleCall ==
    [pc      |-> "idle",        \* the await the call is suspended at
     op      |-> "none",        \* the VaultService function running
     action  |-> "none",        \* the session action that called it, if any
     id      |-> NoId,          \* arguments
     pw      |-> NullPassword,
     newPw   |-> NullPassword,
     name    |-> Undefined,
     cred    |-> EmptyObject,
     credId  |-> NoId,
     patch   |-> EmptyObject,   \* updates, settings or options argument
     data    |-> NullData,      \* locals
     ev      |-> NullVault,
     vault   |-> NullVault,
     out     |-> NullVault,
     result  |-> EmptyObject,   \* the credential returned
     backup  |-> EmptyObject,   \* importData: the parsed backup
     next    |-> 0,             \* importData: the position in backup.vaults;
                                \* generatePassword: the length argument
     score   |-> 0,             \* checkPasswordStrength: the number returned
     db      |-> 0,             \* storage: the database handles the call
                                \* opened and has not closed
     status  |-> "none",        \* "running", "ok" or "error"
     err     |-> NoError,
     cap     |-> [currentVault |-> NullVault, vaultData |-> NullData,
                  masterPassword |-> NullPassword, isLocked |-> TRUE],
     pre     |-> EmptyObject,   \* history: the store when the call was made
     preSettings |-> EmptyObject, \* history: the settings store at that time
     alone   |-> TRUE]          \* history: no other call was in flight with it

Running(q) == calls[q].pc \notin {"idle", "done"}

\* No call is awaiting.
Quiescent == \A p \in Procs : ~Running(p)

Init ==
    /\ store = EmptyObject
    /\ settingsStore = EmptyObject
    /\ calls = [p \in Procs |-> IdleCall]
    /\ now = 0
    /\ rnd = 0
    /\ known = {}
    /\ added = EmptyObject
    /\ currentVault = NullVault
    /\ vaultData = NullData
    /\ masterPassword = NullPassword
    /\ isLocked = TRUE
    /\ error = NoError
    /\ appSettings = DefaultSettings
    /\ autoLockTimer = NullTimer
    /\ timers = {}
    /\ cleanup = NullTimer

(* ------------------------ session continuations ------------------------ *)

\* The message a session action stores in `error` when its call throws.
SessionError(action) ==
    CASE action = "createNewVault"      -> "Failed to create vault"
      [] action = "openExistingVault"   -> "Failed to open vault. Incorrect password?"
      [] action = "deleteVault"         -> "Failed to delete vault"
      [] action = "renameVault"         -> "Failed to rename vault"
      [] action = "changeMasterPassword" -> "Failed to change master password"
      [] action = "addCredential"       -> "Failed to add credential"
      [] action = "updateCredential"    -> "Failed to update credential"
      [] action = "deleteCredential"    -> "Failed to delete credential"
      [] action = "updateVaultSettings" -> "Failed to update vault settings"
      [] action = "updateSettings"      -> "Failed to update settings"
      [] OTHER                          -> NoError

\* The vaultData a session action stores after its call resolved, computed
\* from the vaultData its closure captured.
SessionData(d) ==
    CASE d.action = "openExistingVault" -> d.data
      [] d.action = "addCredential" ->
            [d.cap.vaultData EXCEPT !.credentials = Append(@, d.result)]
      [] d.action = "updateCredential" ->
            [d.cap.vaultData EXCEPT !.credentials =
                [i \in DOMAIN @ |-> IF @[i].id = d.credId THEN d.result ELSE @[i]]]
      [] d.action = "deleteCredential" ->
            [d.cap.vaultData EXCEPT !.credentials =
                SelectSeq(@, LAMBDA c : c.id # d.credId)]
      [] d.action = "updateVaultSettings" ->
            [d.cap.vaultData EXCEPT !.settings = d.patch]
      [] d.action = "deleteVault" -> NullData
      [] OTHER -> vaultData

\* A slip in the effect and in lockVault: the timeout is left pending.
ClearTimeout_LeavesPending(ts, id) == ts

\* window.clearTimeout(id) on the pending timeouts ts.
ClearTimeout(ts, id) == {t \in ts : t.id # id}

\* The id window.setTimeout returns: one that no pending timeout has and no
\* live reference holds.
FreshTimer(ts, alt) ==
    LET used == {t.id : t \in ts} \cup {t.captured : t \in ts} \cup {alt}
        n    == CHOOSE k \in 1..(Cardinality(used) + 1) :
                   /\ <<k>> \notin used
                   /\ \A m \in 1..(k - 1) : <<m>> \in used
    IN  <<n>>

\* The render after a handler or continuation has set the primed session
\* state, and the auto-lock effect of lines 98-120.  ts and alt are the
\* pending timeouts and the autoLockTimer the handler left; newRef says that
\* setCurrentVault was given a new object.  When a dependency has changed,
\* the cleanup of the previous run clears its timeout, and the effect, if
\* its condition holds, clears autoLockTimer and sets a new timeout whose
\* callback calls the lockVault of this render.
Effect(newRef, ts, alt) ==
    LET changed == \/ newRef
                   \/ currentVault' # currentVault
                   \/ isLocked' # isLocked
                   \/ appSettings'.autoLockTimeout # appSettings.autoLockTimeout
        cleaned == ClearTimeout(ts, cleanup)
        kept    == ClearTimeout(cleaned, alt)
        timeoutId == FreshTimer(kept, alt)
    IN  IF ~changed
        THEN /\ timers' = ts
             /\ autoLockTimer' = alt
             /\ cleanup' = cleanup
        ELSE IF currentVault' # NullVault /\ ~isLocked' /\ appSettings'.autoLockTimeout > 0
        THEN /\ timers' = kept \cup {[id |-> timeoutId,
                                      left |-> appSettings'.autoLockTimeout,
                                      captured |-> alt]}
             /\ autoLockTimer' = timeoutId
             /\ cleanup' = timeoutId
        ELSE /\ timers' = cleaned
             /\ autoLockTimer' = alt
             /\ cleanup' = NullTimer

\* The render that follows the continuation of the finished call d.
Commit(d) ==
    /\ appSettings' = IF d.status = "ok" /\ d.action = "updateSettings"
                      THEN d.patch
                      ELSE appSettings
    /\ Effect(d.status = "ok" /\ d.action \in {"openExistingVault", "renameVault"},
              timers, autoLockTimer)

\* A slip in renameVault: the current vault is cleared in place of replaced.
Settle_RenameDropsVault(d) ==
    IF d.action = "none"
    THEN UNCHANGED sessionVars
    ELSE /\ IF d.status = "error"
           THEN /\ error' = SessionError(d.action)
                /\ UNCHANGED <<currentVault, vaultData, masterPassword, isLocked>>
           ELSE IF d.action = "openExistingVault"
           THEN /\ currentVault' = d.vault
                /\ vaultData' = SessionData(d)
                /\ masterPassword' = d.pw
                /\ isLocked' = FALSE
                /\ UNCHANGED error
           ELSE IF d.action = "deleteVault"
           THEN IF d.cap.currentVault # NullVault /\ d.cap.currentVault.id = d.id
                THEN /\ currentVault' = NullVault
                     /\ vaultData' = SessionData(d)
                     /\ masterPassword' = NullPassword
                     /\ isLocked' = TRUE
                     /\ UNCHANGED error
                ELSE UNCHANGED <<currentVault, vaultData, masterPassword, isLocked, error>>
           ELSE IF d.action = "renameVault"
           THEN /\ currentVault' = NullVault
                /\ UNCHANGED <<vaultData, masterPassword, isLocked, error>>
           ELSE IF d.action = "changeMasterPassword"
           THEN /\ masterPassword' = d.newPw
                /\ UNCHANGED <<currentVault, vaultData, isLocked, error>>
           ELSE IF d.action \in {"createNewVault", "updateSettings"}
           THEN UNCHANGED <<currentVault, vaultData, masterPassword, isLocked, error>>
           ELSE /\ vaultData' = SessionData(d)
                /\ UNCHANGED <<currentVault, masterPassword, isLocked, error>>
         /\ Commit(d)

\* A slip in deleteVault: the session is reset whichever vault was deleted.
Settle_DeleteAnyVault(d) ==
    IF d.action = "none"
    THEN UNCHANGED sessionVars
    ELSE /\ IF d.status = "error"
           THEN /\ error' = SessionError(d.action)
                /\ UNCHANGED <<currentVault, vaultData, masterPassword, isLocked>>
           ELSE IF d.action = "openExistingVault"
           THEN /\ currentVault' = d.vault
                /\ vaultData' = SessionData(d)
                /\ masterPassword' = d.pw
                /\ isLocked' = FALSE
                /\ UNCHANGED error
           ELSE IF d.action = "deleteVault"
           THEN IF d.cap.currentVault # NullVault
                THEN /\ currentVault' = NullVault
                     /\ vaultData' = SessionData(d)
                     /\ masterPassword' = NullPassword
                     /\ isLocked' = TRUE
                     /\ UNCHANGED error
                ELSE UNCHANGED <<currentVault, vaultData, masterPassword, isLocked, error>>
           ELSE IF d.action = "renameVault"
           THEN /\ currentVault' = d.vault
                /\ UNCHANGED <<vaultData, masterPassword, isLocked, error>>
           ELSE IF d.action = "changeMasterPassword"
           THEN /\ masterPassword' = d.newPw
                /\ UNCHANGED <<currentVault, vaultData, isLocked, error>>
           ELSE IF d.action \in {"createNewVault", "updateSettings"}
           THEN UNCHANGED <<currentVault, vaultData, masterPassword, isLocked, error>>
           ELSE /\ vaultData' = SessionData(d)
                /\ UNCHANGED <<currentVault, masterPassword, isLocked, error>>
         /\ Commit(d)

\* What the session action behind the finished call d does after its await:
\* the setState calls of its try block, or setError in its catch block.
Settle(d) ==
    IF d.action = "none"
    THEN UNCHANGED sessionVars
    ELSE /\ IF d.status = "error"
           THEN /\ error' = SessionError(d.action)
                /\ UNCHANGED <<currentVault, vaultData, masterPassword, isLocked>>
           ELSE IF d.action = "openExistingVault"
           THEN /\ currentVault' = d.vault
                /\ vaultData' = SessionData(d)
                /\ masterPassword' = d.pw
                /\ isLocked' = FALSE
                /\ UNCHANGED error
           ELSE IF d.action = "deleteVault"
           THEN IF d.cap.currentVault # NullVault /\ d.cap.currentVault.id = d.id
                THEN /\ currentVault' = NullVault
                     /\ vaultData' = SessionData(d)
                     /\ masterPassword' = NullPassword
                     /\ isLocked' = TRUE
                     /\ UNCHANGED error
                ELSE UNCHANGED <<currentVault, vaultData, masterPassword, isLocked, error>>
           ELSE IF d.action = "renameVault"
           THEN /\ currentVault' = d.vault
                /\ UNCHANGED <<vaultData, masterPassword, isLocked, error>>
           ELSE IF d.action = "changeMasterPassword"
           THEN /\ masterPassword' = d.newPw
                /\ UNCHANGED <<currentVault, vaultData, isLocked, error>>
           ELSE IF d.action \in {"createNewVault", "updateSettings"}
           THEN UNCHANGED <<currentVault, vaultData, masterPassword, isLocked, error>>
           ELSE /\ vaultData' = SessionData(d)
                /\ UNCHANGED <<currentVault, masterPassword, isLocked, error>>
         /\ Commit(d)

\* History: the ids of the credentials the addCredential calls on each vault
\* have returned, in the order of their returns, since the vault was created.
Record(r) ==
    IF r.op = "createVault"
    THEN [k \in (DOMAIN added) \cup {r.id} |-> IF k = r.id THEN <<>> ELSE added[k]]
    ELSE IF r.op = "addCredential" /\ r.id \in DOMAIN added
    THEN [added EXCEPT ![r.id] = Append(@, r.result.id)]
    ELSE added

\* The call in slot p throws e.
Throw(p, e) ==
    LET d == [calls[p] EXCEPT !.pc = "done", !.status = "error", !.err = e]
    IN  /\ calls' = [calls EXCEPT ![p] = d]
        /\ Settle(d)
        /\ UNCHANGED added

\* The call in slot p, brought to d by its last step, returns.
Return(p, d) ==
    LET r == [d EXCEPT !.pc = "done", !.status = "ok"]
    IN  /\ calls' = [calls EXCEPT ![p] = r]
        /\ Settle(r)
        /\ added' = Record(r)

\* The call in slot p, brought to d by this step, suspends at its next await.
Suspend(p, d) ==
    /\ calls' = [calls EXCEPT ![p] = d]
    /\ UNCHANGED <<sessionVars, added>>

(* ----------------------- VaultService: the steps ------------------------ *)

\* The random draws the step after openVault makes: addCredential's UUID.
DrawsAfterOpen(c) ==
    IF c.op = "addCredential" /\ c.data # NullData THEN 1 ELSE 0

\* The code that runs when the openVault awaited by a mutation has returned,
\* up to the mutation's call of updateVault (or its throw).
AfterOpen(p, c) ==
    IF c.op = "openVault"
    THEN Return(p, c)
    ELSE IF c.op = "changeMasterPassword"
    THEN Suspend(p, [c EXCEPT !.pc = "cmp_get"])
    ELSE IF c.data = NullData
    THEN Throw(p, ErrTypeError)
    ELSE IF c.op = "addCredential"
    THEN LET newCredential == NewCredential(c.cred, RandomUUID(rnd + 1), now)
         IN  Suspend(p, [c EXCEPT !.pc = "upd_get",
                                  !.result = newCredential,
                                  !.data = PushCredential(c.data, newCredential)])
    ELSE IF c.op = "updateCredential"
    THEN LET index == FindIndex(c.data.credentials, c.credId)
             updatedCredential ==
                 UpdatedCredential(c.data.credentials[index], c.patch, now)
         IN  IF index = 0
             THEN Throw(p, ErrCredNotFound)
             ELSE Suspend(p, [c EXCEPT !.pc = "upd_get",
                                      !.result = updatedCredential,
                                      !.data = ReplaceCredential(c.data, index,
                                                                 updatedCredential)])
    ELSE IF c.op = "deleteCredential"
    THEN Suspend(p, [c EXCEPT !.pc = "upd_get",
                              !.data = FilterCredentials(c.data, c.credId)])
    ELSE \* updateVaultSettings
         Suspend(p, [c EXCEPT !.pc = "upd_get",
                              !.data = MergeSettings(c.data, c.patch)])

\* openVault, lines 73-97: getVault, then decode, derive and decrypt.
OpenRead(p) ==
    LET c == calls[p] IN
    /\ c.pc = "open_get"
    /\ \E fails \in BOOLEAN :
          IF fails
          THEN Throw(p, ErrRetrieve)
          ELSE IF OpenResult(store, c.id, c.pw).err # NoError
          THEN Throw(p, OpenResult(store, c.id, c.pw).err)
          ELSE Suspend(p, [c EXCEPT !.pc = "open_save",
                                   !.ev = store[c.id],
                                   !.data = OpenResult(store, c.id, c.pw).data,
                                   !.vault = VaultMeta(store[c.id], now)])
    /\ UNCHANGED <<store, now, settingsStore, rnd, known>>

\* openVault, lines 100-108: saveVault of the record read, with the new
\* lastAccessed; any failure inside the try block becomes the generic error.
OpenSave(p) ==
    LET c == calls[p] IN
    /\ c.pc = "open_save"
    /\ \E fails \in BOOLEAN :
          IF fails
          THEN Throw(p, ErrIncorrect) /\ UNCHANGED <<store, rnd>>
          ELSE /\ rnd' = rnd + DrawsAfterOpen(c)
               /\ store' = Put(store, OpenedVault(c.ev, c.vault.lastAccessed))
               /\ AfterOpen(p, c)
    /\ UNCHANGED <<now, settingsStore, known>>

\* updateVault, lines 121-145: getVault, then derive, encrypt and build.
UpdRead(p) ==
    LET c == calls[p] IN
    /\ c.pc = "upd_get"
    /\ \E fails \in BOOLEAN :
          IF fails
          THEN Throw(p, ErrRetrieve) /\ UNCHANGED rnd
          ELSE IF c.id \notin DOMAIN store
          THEN Throw(p, ErrVaultNotFound) /\ UNCHANGED rnd
          ELSE /\ rnd' = rnd + 1
               /\ Suspend(p, [c EXCEPT !.pc = "upd_save",
                                      !.ev = store[c.id],
                                      !.out = UpdatedVault(store[c.id], c.pw, c.data,
                                                           c.name, rnd + 1, now)])
    /\ UNCHANGED <<store, now, settingsStore, known>>

\* updateVault, lines 148-160: saveVault of the updated record.
UpdSave(p) ==
    LET c == calls[p] IN
    /\ c.pc = "upd_save"
    /\ \E fails \in BOOLEAN :
          IF fails
          THEN Throw(p, ErrUpdate) /\ UNCHANGED store
          ELSE /\ store' = Put(store, c.out)
               /\ Return(p, [c EXCEPT !.vault = VaultMeta(c.out, c.out.lastAccessed)])
    /\ UNCHANGED <<now, settingsStore, rnd, known>>

\* changeMasterPassword, lines 196-216: derive the new key, encrypt, re-read
\* the record and build the rotated one.
CmpRead(p) ==
    LET c == calls[p] IN
    /\ c.pc = "cmp_get"
    /\ rnd' = rnd + 2
    /\ \E fails \in BOOLEAN :
          IF fails
          THEN Throw(p, ErrRetrieve)
          ELSE IF c.id \notin DOMAIN store
          THEN Throw(p, ErrVaultNotFound)
          ELSE Suspend(p, [c EXCEPT !.pc = "cmp_save",
                                   !.out = RotatedVault(store[c.id], c.newPw, c.data,
                                                        rnd + 1, now)])
    /\ UNCHANGED <<store, now, settingsStore, known>>

\* changeMasterPassword, line 219: saveVault of the rotated record.
CmpSave(p) ==
    LET c == calls[p] IN
    /\ c.pc = "cmp_save"
    /\ \E fails \in BOOLEAN :
          IF fails
          THEN Throw(p, ErrSave) /\ UNCHANGED store
          ELSE /\ store' = Put(store, c.out)
               /\ Return(p, c)
    /\ UNCHANGED <<now, settingsStore, rnd, known>>

\* createVault, line 63: saveVault of the new record.
CreateSave(p) ==
    LET c == calls[p] IN
    /\ c.pc = "create_save"
    /\ \E fails \in BOOLEAN :
          IF fails
          THEN Throw(p, ErrSave) /\ UNCHANGED <<store, known>>
          ELSE /\ store' = Put(store, c.out)
               /\ known' = known \cup {c.id}
               /\ Return(p, c)
    /\ UNCHANGED <<now, settingsStore, rnd>>

\* removeVault, line 181: deleteVault(id) on the store.
RemoveDelete(p) ==
    LET c == calls[p] IN
    /\ c.pc = "rm_delete"
    /\ \E fails \in BOOLEAN :
          IF fails
          THEN Throw(p, ErrDelete) /\ UNCHANGED store
          ELSE /\ store' = Delete(store, c.id)
               /\ Return(p, c)
    /\ UNCHANGED <<now, settingsStore, rnd, known>>

\* saveSettings(settings), storage.ts lines 156-176: the put of the one
\* settings record.
SettingsSave(p) ==
    LET c == calls[p] IN
    /\ c.pc = "settings_save"
    /\ \E fails \in BOOLEAN :
          IF fails
          THEN Throw(p, ErrSaveSettings) /\ UNCHANGED settingsStore
          ELSE /\ settingsStore' = Put(settingsStore, SettingsRecord(c.patch))
               /\ Return(p, c)
    /\ UNCHANGED <<store, now, rnd, known>>

\* Time passes.
Tick ==
    /\ now < MaxClock
    /\ now' = now + 1
    /\ UNCHANGED <<store, settingsStore, calls, rnd, known, added, sessionVars>>

(* ----------------------- VaultService: the calls ------------------------ *)

\* A credential a caller of updateVault puts in the data it passes.
WifiCredential ==
    [id |-> <<100>>, title |-> "Wifi", url |-> Undefined, createdAt |-> 0, lastModified |-> 0]

\* The (data, newName) pairs passed to updateVault by a caller.
UpdateVaultInputs ==
    { [data |-> DefaultVaultData, newName |-> "Work"],
      [data |-> [DefaultVaultData EXCEPT !.credentials = <<WifiCredential>>],
       newName |-> Undefined] }

\* Field overrides passed to updateCredential.
UpdateInputs == { [title |-> "Mail"], [title |-> "Bank", url |-> Undefined] }

\* Settings passed to updateVaultSettings.
SettingsInputs == { [defaultCategory |-> "Work"], [autoLockTimeout |-> 5] }

\* The vault ids a caller passes: those createVault has returned.
IdInputs == known

\* The ids of the credentials persisted in vault id.
CredentialIds(id) ==
    IF id \in DOMAIN store
    THEN LET text == Base64ToArrayBuffer(store[id].encryptedData).text
         IN  IF text.json = "null"
             THEN {}
             ELSE {text.credentials[i].id : i \in DOMAIN text.credentials}
    ELSE {}

\* A new call c enters slot p; the calls in flight are no longer alone.
Begin(p, c) ==
    /\ UNCHANGED added
    /\ calls' = [q \in Procs |->
                   IF q = p
                   THEN [c EXCEPT !.status = "running",
                                  !.pre = store,
                                  !.preSettings = settingsStore,
                                  !.cap = Closure,
                                  !.alone = \A r \in Procs \ {p} : ~Running(r)]
                   ELSE IF Running(q)
                   THEN [calls[q] EXCEPT !.alone = FALSE]
                   ELSE calls[q]]

Free(p) == ~Running(p)

\* createVault(name, masterPassword), lines 31-60: the new record is built
\* before the first await on the store.
CreateVault(p, action, name, password) ==
    /\ Free(p)
    /\ rnd' = rnd + 3
    /\ Begin(p, [IdleCall EXCEPT !.pc = "create_save", !.op = "createVault",
                                 !.action = action,
                                 !.id = RandomUUID(rnd + 1), !.name = name, !.pw = password,
                                 !.out = NewEncryptedVault(name, password, rnd + 1, now)])
    /\ UNCHANGED <<store, now, settingsStore, known>>

\* openVault(id, masterPassword).
OpenVault(p, action, id, password) ==
    /\ Free(p)
    /\ Begin(p, [IdleCall EXCEPT !.pc = "open_get", !.op = "openVault",
                                 !.action = action,
                                 !.id = id, !.pw = password])
    /\ UNCHANGED <<store, now, settingsStore, rnd, known>>

\* updateVault(id, masterPassword, data, newName).
UpdateVault(p, action, id, password, data, newName, newPassword) ==
    /\ Free(p)
    /\ Begin(p, [IdleCall EXCEPT !.pc = "upd_get", !.op = "updateVault",
                                 !.action = action,
                                 !.id = id, !.pw = password, !.data = data,
                                 !.name = newName, !.newPw = newPassword])
    /\ UNCHANGED <<store, now, settingsStore, rnd, known>>

\* removeVault(id).
RemoveVault(p, action, id) ==
    /\ Free(p)
    /\ Begin(p, [IdleCall EXCEPT !.pc = "rm_delete", !.op = "removeVault",
                                 !.action = action, !.id = id])
    /\ UNCHANGED <<store, now, settingsStore, rnd, known>>

\* changeMasterPassword(id, currentPassword, newPassword): starts with openVault.
ChangeMasterPassword(p, id, currentPassword, newPassword) ==
    /\ Free(p)
    /\ Begin(p, [IdleCall EXCEPT !.pc = "open_get", !.op = "changeMasterPassword",
                                 !.id = id, !.pw = currentPassword,
                                 !.newPw = newPassword])
    /\ UNCHANGED <<store, now, settingsStore, rnd, known>>

\* addCredential(vaultId, masterPassword, credential): starts with openVault.
AddCredential(p, action, vaultId, password, credential) ==
    /\ Free(p)
    /\ Begin(p, [IdleCall EXCEPT !.pc = "open_get", !.op = "addCredential",
                                 !.action = action,
                                 !.id = vaultId, !.pw = password,
                                 !.cred = credential])
    /\ UNCHANGED <<store, now, settingsStore, rnd, known>>

\* updateCredential(vaultId, masterPassword, credentialId, updates).
UpdateCredential(p, action, vaultId, password, credentialId, updates) ==
    /\ Free(p)
    /\ Begin(p, [IdleCall EXCEPT !.pc = "open_get", !.op = "updateCredential",
                                 !.action = action,
                                 !.id = vaultId, !.pw = password,
                                 !.credId = credentialId, !.patch = updates])
    /\ UNCHANGED <<store, now, settingsStore, rnd, known>>

\* deleteCredential(vaultId, masterPassword, credentialId).
DeleteCredential(p, action, vaultId, password, credentialId) ==
    /\ Free(p)
    /\ Begin(p, [IdleCall EXCEPT !.pc = "open_get", !.op = "deleteCredential",
                                 !.action = action,
                                 !.id = vaultId, !.pw = password,
                                 !.credId = credentialId])
    /\ UNCHANGED <<store, now, settingsStore, rnd, known>>

\* updateVaultSettings(vaultId, masterPassword, settings).
UpdateVaultSettings(p, action, vaultId, password, settings) ==
    /\ Free(p)
    /\ Begin(p, [IdleCall EXCEPT !.pc = "open_get", !.op = "updateVaultSettings",
                                 !.action = action,
                                 !.id = vaultId, !.pw = password,
                                 !.patch = settings])
    /\ UNCHANGED <<store, now, settingsStore, rnd, known>>

\* saveSettings(settings).
SaveSettings(p, action, newSettings) ==
    /\ Free(p)
    /\ Begin(p, [IdleCall EXCEPT !.pc = "settings_save", !.op = "saveSettings",
                                 !.action = action, !.patch = newSettings])
    /\ UNCHANGED <<store, now, settingsStore, rnd, known>>

\* The random draws a call of op makes when it succeeds.
Draws(op) ==
    CASE op = "createVault" -> 3
      [] op \in {"changeMasterPassword", "addCredential"} -> 2
      [] op \in {"openVault", "removeVault"} -> 0
      [] OTHER -> 1

\* A run has draws left for a call of op, under the budget max.
CanDraw(op, max) == rnd + Draws(op) <= max

\* A client of the VaultService calls one of its functions.
ServiceCall(p, max) ==
    \/ /\ CanDraw("createVault", max)
       /\ \E n \in Names : CreateVault(p, "none", n, "hunter2")
       /\ UNCHANGED sessionVars
    \/ /\ \E id \in IdInputs, pw \in Passwords : OpenVault(p, "none", id, pw)
       /\ UNCHANGED sessionVars
    \/ /\ CanDraw("updateVault", max)
       /\ \E id \in IdInputs, pw \in Passwords, u \in UpdateVaultInputs :
             UpdateVault(p, "none", id, pw, u.data, u.newName, NullPassword)
       /\ UNCHANGED sessionVars
    \/ /\ \E id \in IdInputs : RemoveVault(p, "none", id)
       /\ UNCHANGED sessionVars
    \/ /\ CanDraw("changeMasterPassword", max)
       /\ \E id \in IdInputs, pw \in Passwords, npw \in NewPasswords :
             ChangeMasterPassword(p, id, pw, npw)
       /\ UNCHANGED sessionVars
    \/ /\ CanDraw("addCredential", max)
       /\ \E id \in IdInputs, pw \in Passwords, c \in CredentialInputs :
             AddCredential(p, "none", id, pw, c)
       /\ UNCHANGED sessionVars
    \/ /\ CanDraw("updateCredential", max)
       /\ \E id \in IdInputs, pw \in Passwords, u \in UpdateInputs :
             \E cid \in CredentialIds(id) \cup {NoId} :
                UpdateCredential(p, "none", id, pw, cid, u)
       /\ UNCHANGED sessionVars
    \/ /\ CanDraw("deleteCredential", max)
       /\ \E id \in IdInputs, pw \in Passwords :
             \E cid \in CredentialIds(id) \cup {NoId} :
                DeleteCredential(p, "none", id, pw, cid)
       /\ UNCHANGED sessionVars
    \/ /\ CanDraw("updateVaultSettings", max)
       /\ \E id \in IdInputs, pw \in Passwords, st \in SettingsInputs :
             UpdateVaultSettings(p, "none", id, pw, st)
       /\ UNCHANGED sessionVars

\* One step of a call in flight.
Step(p) ==
    \/ OpenRead(p)
    \/ OpenSave(p)
    \/ UpdRead(p)
    \/ UpdSave(p)
    \/ CmpRead(p)
    \/ CmpSave(p)
    \/ CreateSave(p)
    \/ RemoveDelete(p)

\* The VaultService used by one client that awaits each call before it makes
\* the next.
Next ==
    \/ ServiceCall(1, MaxRand)
    \/ Step(1)
    \/ Tick

Spec == Init /\ [][Next]_vars


\* The steps of createVault, openVault and addCredential.
AddStep(p) ==
    \/ OpenRead(p)
    \/ OpenSave(p)
    \/ UpdRead(p)
    \/ UpdSave(p)
    \/ CreateSave(p)

\* The calls of a client that only creates vaults, adds credentials and opens.
AddCall(p, max) ==
    \/ /\ CanDraw("createVault", max)
       /\ \E n \in Names : CreateVault(p, "none", n, "hunter2")
       /\ UNCHANGED sessionVars
    \/ /\ \E id \in IdInputs, pw \in Passwords : OpenVault(p, "none", id, pw)
       /\ UNCHANGED sessionVars
    \/ /\ CanDraw("addCredential", max)
       /\ \E id \in IdInputs, pw \in Passwords, c \in CredentialInputs :
             AddCredential(p, "none", id, pw, c)
       /\ UNCHANGED sessionVars

\* One client that creates vaults and then only adds credentials and opens,
\* each call made after the previous one has ended.
AddNext ==
    \/ AddCall(1, MaxAddRand)
    \/ AddStep(1)
    \/ Tick

AddSpec == Init /\ [][AddNext]_vars

\* The calls of a client that creates a vault and adds credentials to it with
\* its master password; the credentials it adds have a title and no url.
RaceCall(p, max) ==
    \/ /\ CanDraw("createVault", max)
       /\ known = {}
       /\ \E n \in Names : CreateVault(p, "none", n, "hunter2")
       /\ UNCHANGED sessionVars
    \/ /\ CanDraw("addCredential", max)
       /\ \E id \in known, c \in CredentialInputs :
             /\ c.url = Undefined
             /\ AddCredential(p, "none", id, "hunter2", c)
       /\ UNCHANGED sessionVars

\* Two clients of that kind, whose calls are in flight together.
RaceNext ==
    \/ \E p \in Procs : RaceCall(p, MaxAddRand)
    \/ \E p \in Procs : AddStep(p)
    \/ Tick

RaceSpec == Init /\ [][RaceNext]_vars

\* The steps of createVault, openVault, updateVault and removeVault.
RemoveStep(p) ==
    \/ OpenRead(p)
    \/ OpenSave(p)
    \/ UpdRead(p)
    \/ UpdSave(p)
    \/ CreateSave(p)
    \/ RemoveDelete(p)

\* The calls of a client that creates a vault, opens it and updates its data
\* with its master password, and removes it.
RemoveCall(p, max) ==
    \/ /\ CanDraw("createVault", max)
       /\ known = {}
       /\ \E n \in Names : CreateVault(p, "none", n, "hunter2")
       /\ UNCHANGED sessionVars
    \/ /\ \E id \in known : OpenVault(p, "none", id, "hunter2")
       /\ UNCHANGED sessionVars
    \/ /\ CanDraw("updateVault", max)
       /\ \E id \in known, u \in UpdateVaultInputs :
             /\ u.newName = Undefined
             /\ UpdateVault(p, "none", id, "hunter2", u.data, u.newName, NullPassword)
       /\ UNCHANGED sessionVars
    \/ /\ \E id \in known : RemoveVault(p, "none", id)
       /\ UNCHANGED sessionVars

\* Two clients of that kind, whose calls are in flight together.
RemoveNext ==
    \/ \E p \in Procs : RemoveCall(p, MaxRemoveRand)
    \/ \E p \in Procs : RemoveStep(p)
    \/ Tick

RemoveSpec == Init /\ [][RemoveNext]_vars

\* The steps of createVault, updateVault and changeMasterPassword.
RotateStep(p) ==
    \/ OpenRead(p)
    \/ OpenSave(p)
    \/ UpdRead(p)
    \/ UpdSave(p)
    \/ CmpRead(p)
    \/ CmpSave(p)
    \/ CreateSave(p)

\* The calls of a client that creates a vault, updates its data with the
\* password it was created with and changes its master password.
RotateCall(p, max) ==
    \/ /\ CanDraw("createVault", max)
       /\ known = {}
       /\ \E n \in Names : CreateVault(p, "none", n, "hunter2")
       /\ UNCHANGED sessionVars
    \/ /\ CanDraw("updateVault", max)
       /\ \E id \in known, u \in UpdateVaultInputs :
             /\ u.newName = Undefined
             /\ UpdateVault(p, "none", id, "hunter2", u.data, u.newName, NullPassword)
       /\ UNCHANGED sessionVars
    \/ /\ CanDraw("changeMasterPassword", max)
       /\ \E id \in known, npw \in Passwords :
             ChangeMasterPassword(p, id, "hunter2", npw)
       /\ UNCHANGED sessionVars

\* Two clients of that kind, whose calls are in flight together.
RotateNext ==
    \/ \E p \in Procs : RotateCall(p, MaxRand)
    \/ \E p \in Procs : RotateStep(p)
    \/ Tick

RotateSpec == Init /\ [][RotateNext]_vars

\* The calls of a client that creates a vault and then, with its master
\* password, adds, updates and deletes credentials and updates its settings.
CredCall(p, max) ==
    \/ /\ CanDraw("createVault", max)
       /\ known = {}
       /\ \E n \in Names : CreateVault(p, "none", n, "hunter2")
       /\ UNCHANGED sessionVars
    \/ /\ CanDraw("addCredential", max)
       /\ \E id \in known, c \in CredentialInputs :
             AddCredential(p, "none", id, "hunter2", c)
       /\ UNCHANGED sessionVars
    \/ /\ CanDraw("updateCredential", max)
       /\ \E id \in known, u \in UpdateInputs :
             \E cid \in CredentialIds(id) \cup {NoId} :
                UpdateCredential(p, "none", id, "hunter2", cid, u)
       /\ UNCHANGED sessionVars
    \/ /\ CanDraw("deleteCredential", max)
       /\ \E id \in known :
             \E cid \in CredentialIds(id) \cup {NoId} :
                DeleteCredential(p, "none", id, "hunter2", cid)
       /\ UNCHANGED sessionVars
    \/ /\ CanDraw("updateVaultSettings", max)
       /\ \E id \in known, st \in SettingsInputs :
             UpdateVaultSettings(p, "none", id, "hunter2", st)
       /\ UNCHANGED sessionVars

\* One client of that kind, each call made after the previous one has ended.
CredNext ==
    \/ CredCall(1, MaxCredRand)
    \/ AddStep(1)
    \/ Tick

CredSpec == Init /\ [][CredNext]_vars

\* The calls of a client that creates a vault, removes it, and calls every
\* operation with the id of its vault or with an id no vault ever had.
AbsentCall(p, max) ==
    \/ /\ CanDraw("createVault", max)
       /\ known = {}
       /\ \E n \in Names : CreateVault(p, "none", n, "hunter2")
       /\ UNCHANGED sessionVars
    \/ /\ \E id \in known : RemoveVault(p, "none", id)
       /\ UNCHANGED sessionVars
    \/ /\ \E id \in known \cup {NoId} : OpenVault(p, "none", id, "hunter2")
       /\ UNCHANGED sessionVars
    \/ /\ CanDraw("updateVault", max)
       /\ \E id \in known \cup {NoId}, u \in UpdateVaultInputs :
             UpdateVault(p, "none", id, "hunter2", u.data, u.newName, NullPassword)
       /\ UNCHANGED sessionVars
    \/ /\ CanDraw("changeMasterPassword", max)
       /\ \E id \in known \cup {NoId} :
             ChangeMasterPassword(p, id, "hunter2", "hunter2")
       /\ UNCHANGED sessionVars
    \/ /\ CanDraw("addCredential", max)
       /\ \E id \in known \cup {NoId}, c \in CredentialInputs :
             AddCredential(p, "none", id, "hunter2", c)
       /\ UNCHANGED sessionVars
    \/ /\ CanDraw("updateCredential", max)
       /\ \E id \in known \cup {NoId}, u \in UpdateInputs :
             \E cid \in CredentialIds(id) \cup {NoId} :
                UpdateCredential(p, "none", id, "hunter2", cid, u)
       /\ UNCHANGED sessionVars
    \/ /\ CanDraw("deleteCredential", max)
       /\ \E id \in known \cup {NoId} :
             \E cid \in CredentialIds(id) \cup {NoId} :
                DeleteCredential(p, "none", id, "hunter2", cid)
       /\ UNCHANGED sessionVars
    \/ /\ CanDraw("updateVaultSettings", max)
       /\ \E id \in known \cup {NoId}, st \in SettingsInputs :
             UpdateVaultSettings(p, "none", id, "hunter2", st)
       /\ UNCHANGED sessionVars

\* One client of that kind, each call made after the previous one has ended.
AbsentNext ==
    \/ AbsentCall(1, MaxRand)
    \/ Step(1)
    \/ Tick

AbsentSpec == Init /\ [][AbsentNext]_vars

\* The records a damaged backup holds for the stored record encryptedVault:
\* its ciphertext, iv or salt is changed, cut, or no longer base64.
DamagedVaults(encryptedVault) ==
    {[encryptedVault EXCEPT !.encryptedData = InvalidBase64],
     [encryptedVault EXCEPT !.iv = InvalidBase64],
     [encryptedVault EXCEPT !.salt = InvalidBase64],
     [encryptedVault EXCEPT !.iv = ArrayBufferToBase64(OtherBytes)],
     [encryptedVault EXCEPT !.salt = ArrayBufferToBase64(OtherBytes)]}
    \cup
    (IF Decodes(encryptedVault.encryptedData)
     THEN {[encryptedVault EXCEPT !.encryptedData =
               ArrayBufferToBase64(DamagedBytes(
                   Base64ToArrayBuffer(encryptedVault.encryptedData)))]}
     ELSE {})

\* importData(jsonData) of a backup that holds one vault, a damaged copy of a
\* stored record: saveVault puts it over the stored one.
ImportData ==
    /\ \E id \in DOMAIN store :
          \E vault \in DamagedVaults(store[id]) :
             \E fails \in BOOLEAN :
                store' = IF fails THEN store ELSE Put(store, vault)
    /\ UNCHANGED <<calls, now, settingsStore, rnd, known, added, sessionVars>>

\* JSON.parse(jsonData) of a text that is not JSON throws.
InvalidJson == [json |-> "invalid"]

\* JSON.parse("null").
NullJson == [json |-> "null"]

\* A slip in importData: saveSettings is called whatever data.settings is.
HasSettings_Always(data) == TRUE

\* importData, line 237: if (data.settings).
HasSettings(data) == data.settings # NullSettings

\* importData, line 228: !data.vaults || !Array.isArray(data.vaults).
InvalidFormat(data) == data.vaults.type # "array"

\* A record exported on another device: a vault this store never created.
ForeignVault == NewEncryptedVault("Family", "swordfish", 50, 0)

\* A record of a backup that has the id of a stored record and other content.
BackupCopy(id) == [ForeignVault EXCEPT !.id = id]

\* The settings members of the backups imported.
BackupSettings ==
    { NullSettings,
      [id |-> AppSettingsId, darkMode |-> TRUE, autoLockTimeout |-> 30],
      [id |-> AppSettingsId, darkMode |-> FALSE, autoLockTimeout |-> 5] }

\* The vaults members of the backups imported: missing, not an array, or an
\* array of records.
BackupVaults ==
    { [type |-> "undefined"], [type |-> "string"],
      [type |-> "array", items |-> <<>>],
      [type |-> "array", items |-> <<ForeignVault>>] }
    \cup { [type |-> "array", items |-> <<BackupCopy(id)>>] : id \in DOMAIN store }
    \cup { [type |-> "array", items |-> <<BackupCopy(id), ForeignVault>>] :
              id \in DOMAIN store }

\* The backup files passed to importData, as JSON.parse reads them.
BackupInputs ==
    { InvalidJson, NullJson }
    \cup { [json |-> "object", vaults |-> v, settings |-> st] :
              v \in BackupVaults, st \in BackupSettings }

\* importData ends before its first await: it throws e, or it returns when
\* the backup lists no vault and has no settings.
ImportEnds(p, data, e) ==
    /\ calls' = [calls EXCEPT ![p] =
                    [IdleCall EXCEPT !.pc = "done", !.op = "importData",
                                     !.backup = data,
                                     !.status = IF e = NoError THEN "ok" ELSE "error",
                                     !.err = e,
                                     !.pre = store,
                                     !.preSettings = settingsStore,
                                     !.cap = Closure]]
    /\ UNCHANGED added

\* importData(jsonData), lines 224-234: parse, validate, and reach the first
\* saveVault, the saveSettings, or the end.
ImportDataCall(p, data) ==
    /\ Free(p)
    /\ IF data = InvalidJson
       THEN ImportEnds(p, data, ErrSyntaxError)
       ELSE IF data = NullJson
       THEN ImportEnds(p, data, ErrTypeError)
       ELSE IF InvalidFormat(data)
       THEN ImportEnds(p, data, ErrInvalidBackup)
       ELSE LET c == [IdleCall EXCEPT !.op = "importData", !.backup = data,
                                      !.next = 1]
            IN  IF data.vaults.items # <<>>
                THEN Begin(p, [c EXCEPT !.pc = "imp_save"])
                ELSE IF HasSettings(data)
                THEN Begin(p, [c EXCEPT !.pc = "imp_settings"])
                ELSE ImportEnds(p, data, NoError)
    /\ UNCHANGED <<store, settingsStore, now, rnd, known>>

\* importData, lines 233-240: after the last saveVault, saveSettings if the
\* backup has settings, else the end.
AfterVaults(p, c) ==
    IF HasSettings(c.backup)
    THEN Suspend(p, [c EXCEPT !.pc = "imp_settings"])
    ELSE Return(p, c)

\* importData, lines 233-235: saveVault(vault) of the next record listed.
ImportSave(p) ==
    LET c == calls[p] IN
    /\ c.pc = "imp_save"
    /\ \E fails \in BOOLEAN :
          IF fails
          THEN Throw(p, ErrSave) /\ UNCHANGED store
          ELSE /\ store' = Put(store, c.backup.vaults.items[c.next])
               /\ IF c.next < Len(c.backup.vaults.items)
                  THEN Suspend(p, [c EXCEPT !.next = c.next + 1])
                  ELSE AfterVaults(p, c)
    /\ UNCHANGED <<settingsStore, now, rnd, known>>

\* importData, lines 238-240: saveSettings(data.settings).
ImportSettings(p) ==
    LET c == calls[p] IN
    /\ c.pc = "imp_settings"
    /\ \E fails \in BOOLEAN :
          IF fails
          THEN Throw(p, ErrSaveSettings) /\ UNCHANGED settingsStore
          ELSE /\ settingsStore' = Put(settingsStore, SettingsRecord(c.backup.settings))
               /\ Return(p, c)
    /\ UNCHANGED <<store, now, rnd, known>>

\* The steps of createVault, updateVault and importData.
ImportStep(p) ==
    \/ UpdRead(p)
    \/ UpdSave(p)
    \/ CreateSave(p)
    \/ ImportSave(p)
    \/ ImportSettings(p)

\* The calls of a client that creates a vault, renames it and imports backups.
ImportCall(p, max) ==
    \/ /\ CanDraw("createVault", max)
       /\ known = {}
       /\ \E n \in Names : CreateVault(p, "none", n, "hunter2")
       /\ UNCHANGED sessionVars
    \/ /\ CanDraw("updateVault", max)
       /\ \E id \in known, u \in UpdateVaultInputs :
             /\ u.newName # Undefined
             /\ UpdateVault(p, "none", id, "hunter2", u.data, u.newName, NullPassword)
       /\ UNCHANGED sessionVars
    \/ /\ \E data \in BackupInputs : ImportDataCall(p, data)
       /\ UNCHANGED sessionVars

\* One client of that kind, each call made after the previous one has ended.
ImportNext ==
    \/ ImportCall(1, MaxImportRand)
    \/ ImportStep(1)
    \/ Tick

ImportSpec == Init /\ [][ImportNext]_vars

\* The operations of storage.ts that open the database themselves.
StorageOps ==
    {"saveVault", "getVault", "getAllVaults", "deleteVault", "saveSettings",
     "getSettings"}

\* The message each operation rejects with when its request fails.
StorageError(op) ==
    CASE op = "saveVault"    -> ErrSave
      [] op = "getVault"     -> ErrRetrieve
      [] op = "getAllVaults" -> "Failed to retrieve vaults"
      [] op = "deleteVault"  -> ErrDelete
      [] op = "saveSettings" -> ErrSaveSettings
      [] op = "getSettings"  -> "Failed to retrieve settings"

\* A storage operation is called: it awaits initDatabase().
StorageCall(p) ==
    /\ Free(p)
    /\ \E op \in StorageOps :
          Begin(p, [IdleCall EXCEPT !.pc = "db_open", !.op = op,
                                    !.id = ForeignVault.id,
                                    !.out = ForeignVault,
                                    !.patch = DefaultSettings])
    /\ UNCHANGED <<store, now, settingsStore, rnd, known, sessionVars>>

\* initDatabase, lines 20-51: indexedDB.open gives a handle, or fails.
InitDatabase(p) ==
    LET c == calls[p] IN
    /\ c.pc = "db_open"
    /\ \E fails \in BOOLEAN :
          IF fails
          THEN Throw(p, ErrOpenDatabase)
          ELSE Suspend(p, [c EXCEPT !.pc = "db_request", !.db = @ + 1])
    /\ UNCHANGED <<store, now, settingsStore, rnd, known>>

\* The request of the operation: onsuccess resolves the promise, onerror
\* rejects it; the transaction has not ended yet.
Request(p) ==
    LET c == calls[p] IN
    /\ c.pc = "db_request"
    /\ \E fails \in BOOLEAN :
          IF fails
          THEN /\ calls' = [calls EXCEPT ![p] =
                               [c EXCEPT !.pc = "db_abort", !.status = "error",
                                         !.err = StorageError(c.op)]]
               /\ UNCHANGED <<store, settingsStore>>
          ELSE /\ calls' = [calls EXCEPT ![p] =
                               [c EXCEPT !.pc = "db_complete", !.status = "ok"]]
               /\ store' = CASE c.op = "saveVault"   -> Put(store, c.out)
                              [] c.op = "deleteVault" -> Delete(store, c.id)
                              [] OTHER                -> store
               /\ settingsStore' = IF c.op = "saveSettings"
                                   THEN Put(settingsStore, SettingsRecord(c.patch))
                                   ELSE settingsStore
    /\ UNCHANGED <<now, rnd, known, added, sessionVars>>

\* The transaction ends.  After a successful request it completes, and
\* oncomplete closes the handle; a failed request aborts the transaction (no
\* handler prevents the default), oncomplete never runs, and nothing else
\* closes the handle.
TransactionEnds(p) ==
    LET c == calls[p] IN
    /\ c.pc \in {"db_complete", "db_abort"}
    /\ calls' = [calls EXCEPT ![p] =
                    [c EXCEPT !.pc = "done",
                              !.db = IF c.pc = "db_complete" THEN @ - 1 ELSE @]]
    /\ UNCHANGED <<store, now, settingsStore, rnd, known, added, sessionVars>>

\* A client of the storage module, each call made after the previous one has
\* ended.
StorageNext ==
    \/ StorageCall(1)
    \/ InitDatabase(1)
    \/ Request(1)
    \/ TransactionEnds(1)

StorageSpec == Init /\ [][StorageNext]_vars

\* The settings passed to saveSettings: AppSettings objects, and the object
\* getSettings returned with members replaced.
SaveSettingsInputs ==
    { [darkMode |-> TRUE, autoLockTimeout |-> 5],
      [darkMode |-> FALSE, autoLockTimeout |-> 15],
      [id |-> AppSettingsId, darkMode |-> FALSE, autoLockTimeout |-> 30] }

\* The settings member of a backup that exportData did not write: it has an
\* id of its own.
ForeignSettings == [id |-> "settings-2", darkMode |-> TRUE, autoLockTimeout |-> 60]

\* The backups imported for their settings.
SettingsBackups ==
    { [json |-> "object", vaults |-> v, settings |-> st] :
         v \in { [type |-> "array", items |-> <<>>],
                 [type |-> "array", items |-> <<ForeignVault>>] },
         st \in BackupSettings \cup {ForeignSettings} }

\* A client that saves settings and imports backups, each call made after
\* the previous one has ended.
SettingsNext ==
    \/ /\ \E newSettings \in SaveSettingsInputs : SaveSettings(1, "none", newSettings)
       /\ UNCHANGED sessionVars
    \/ /\ \E data \in SettingsBackups : ImportDataCall(1, data)
       /\ UNCHANGED sessionVars
    \/ SettingsSave(1)
    \/ ImportSave(1)
    \/ ImportSettings(1)

SettingsSpec == Init /\ [][SettingsNext]_vars

\* The steps of createVault and openVault.
TamperStep(p) ==
    \/ OpenRead(p)
    \/ OpenSave(p)
    \/ CreateSave(p)

\* The calls of a client that creates a vault and opens it.
TamperCall(p, max) ==
    \/ /\ CanDraw("createVault", max)
       /\ known = {}
       /\ \E n \in Names : CreateVault(p, "none", n, "hunter2")
       /\ UNCHANGED sessionVars
    \/ /\ \E id \in known, pw \in Passwords : OpenVault(p, "none", id, pw)
       /\ UNCHANGED sessionVars

\* One client of that kind, and backups imported over its vault.
TamperNext ==
    \/ TamperCall(1, MaxRand)
    \/ TamperStep(1)
    \/ ImportData
    \/ Tick

TamperSpec == Init /\ [][TamperNext]_vars

(* ----------------------- crypto: the round trip ------------------------ *)

\* A credential with a url, as updateVault's callers hold it.
BankCredential ==
    [id |-> <<101>>, title |-> "Bank", url |-> "https://bank", createdAt |-> 0,
     lastModified |-> 1]

\* The values passed to encrypt as data.
DataInputs ==
    { NullData, DefaultVaultData,
      [DefaultVaultData EXCEPT !.credentials = <<WifiCredential>>],
      [DefaultVaultData EXCEPT !.credentials = <<BankCredential>>],
      [DefaultVaultData EXCEPT !.credentials = <<BankCredential, WifiCredential>>],
      [DefaultVaultData EXCEPT !.settings = [autoLockTimeout |-> 5]] }

\* A client is about to derive a key from a password and encrypt a value.
CryptoInit ==
    /\ store = EmptyObject
    /\ settingsStore = EmptyObject
    /\ \E data \in DataInputs, password \in Passwords :
          calls = [p \in Procs |->
                     IF p = 1
                     THEN [IdleCall EXCEPT !.pc = "derive", !.op = "encrypt",
                                           !.data = data, !.pw = password,
                                           !.status = "running"]
                     ELSE IdleCall]
    /\ now = 0
    /\ rnd = 0
    /\ known = {}
    /\ added = EmptyObject
    /\ currentVault = NullVault
    /\ vaultData = NullData
    /\ masterPassword = NullPassword
    /\ isLocked = TRUE
    /\ error = NoError
    /\ appSettings = DefaultSettings
    /\ autoLockTimer = NullTimer
    /\ timers = {}
    /\ cleanup = NullTimer

\* generateKeyFromPassword(password): a key under a fresh salt.
DeriveKey(p) ==
    LET c == calls[p] IN
    /\ c.pc = "derive"
    /\ rnd' = rnd + 1
    /\ calls' = [calls EXCEPT ![p] =
                    [c EXCEPT !.pc = "encrypt",
                              !.ev = GenerateKeyFromPassword(c.pw, NoSalt, rnd + 1)]]
    /\ UNCHANGED <<store, settingsStore, now, known, added, sessionVars>>

\* encrypt(key, data).
EncryptData(p) ==
    LET c == calls[p] IN
    /\ c.pc = "encrypt"
    /\ rnd' = rnd + 1
    /\ calls' = [calls EXCEPT ![p] =
                    [c EXCEPT !.pc = "decrypt",
                              !.out = Encrypt(c.ev.key, c.data, rnd + 1)]]
    /\ UNCHANGED <<store, settingsStore, now, known, added, sessionVars>>

\* The keys passed to decrypt: the key of the encryption, a key derived from
\* another password and the same salt, or from the same password and
\* another salt.
DecryptKeys(c) ==
    {c.ev.key}
    \cup {GenerateKeyFromPassword(password, c.ev.salt, 0).key : password \in Passwords}
    \cup {GenerateKeyFromPassword(c.pw, OtherBytes, 0).key}

\* decrypt(key, encryptedData, iv) of the bytes encrypt returned, or of
\* damaged bytes, under the iv returned or another one.
DecryptData(p) ==
    LET c == calls[p] IN
    /\ c.pc = "decrypt"
    /\ \E key \in DecryptKeys(c),
          encryptedData \in {c.out.encryptedData, DamagedBytes(c.out.encryptedData)},
          iv \in {c.out.iv, OtherBytes} :
          LET d == [c EXCEPT !.pc = "done", !.op = "decrypt",
                             !.vault = [key |-> key, encryptedData |-> encryptedData,
                                        iv |-> iv]]
          IN  calls' = [calls EXCEPT ![p] =
                          IF DecryptOk(key, encryptedData, iv)
                          THEN [d EXCEPT !.status = "ok",
                                         !.result = Decrypt(key, encryptedData, iv)]
                          ELSE [d EXCEPT !.status = "error", !.err = ErrOperation]]
    /\ UNCHANGED <<store, settingsStore, now, rnd, known, added, sessionVars>>

CryptoNext ==
    \/ DeriveKey(1)
    \/ EncryptData(1)
    \/ DecryptData(1)

CryptoSpec == CryptoInit /\ [][CryptoNext]_vars

(* -------------------------- generatePassword --------------------------- *)

\* generatePassword, lines 110-113: the four character classes.
UppercaseChars ==
    <<"A", "B", "C", "D", "E", "F", "G", "H", "I", "J", "K", "L", "M",
      "N", "O", "P", "Q", "R", "S", "T", "U", "V", "W", "X", "Y", "Z">>

LowercaseChars ==
    <<"a", "b", "c", "d", "e", "f", "g", "h", "i", "j", "k", "l", "m",
      "n", "o", "p", "q", "r", "s", "t", "u", "v", "w", "x", "y", "z">>

NumberChars == <<"0", "1", "2", "3", "4", "5", "6", "7", "8", "9">>

SymbolChars ==
    <<"!", "@", "#", "$", "%", "^", "&", "*", "(", ")", "_", "-", "+", "=",
      "<", ">", "?">>

\* A slip in generatePassword: the lowercase letters are always included.
Chars_AlwaysLowercase(options) ==
    (IF options.uppercase THEN UppercaseChars ELSE <<>>)
    \o LowercaseChars
    \o (IF options.numbers THEN NumberChars ELSE <<>>)
    \o (IF options.symbols THEN SymbolChars ELSE <<>>)

\* generatePassword, lines 115-119: the charset of the selected classes.
Chars(options) ==
    (IF options.uppercase THEN UppercaseChars ELSE <<>>)
    \o (IF options.lowercase THEN LowercaseChars ELSE <<>>)
    \o (IF options.numbers THEN NumberChars ELSE <<>>)
    \o (IF options.symbols THEN SymbolChars ELSE <<>>)

\* generatePassword, lines 129-131: one character per byte of randomArray;
\* chars is indexed from 0 in the code and from 1 here.
PasswordFrom(chars, randomArray) ==
    [i \in DOMAIN randomArray |-> chars[(randomArray[i] % Len(chars)) + 1]]

\* The options passed to generatePassword.
OptionsInputs ==
    [uppercase : BOOLEAN, lowercase : BOOLEAN, numbers : BOOLEAN, symbols : BOOLEAN]

\* The lengths passed to generatePassword.
LengthInputs == 0..MaxLength

\* The bytes crypto.getRandomValues writes into a Uint8Array: the ends of
\* the range and the values around the lengths of the charsets.
ByteInputs == {0, 25, 26, 78, 79, 255}

\* A caller is about to call generatePassword(length, options).
GenerateInit ==
    /\ store = EmptyObject
    /\ settingsStore = EmptyObject
    /\ \E length \in LengthInputs, options \in OptionsInputs :
          calls = [p \in Procs |->
                     IF p = 1
                     THEN [IdleCall EXCEPT !.pc = "generate",
                                           !.op = "generatePassword",
                                           !.next = length, !.patch = options,
                                           !.status = "running"]
                     ELSE IdleCall]
    /\ now = 0
    /\ rnd = 0
    /\ known = {}
    /\ added = EmptyObject
    /\ currentVault = NullVault
    /\ vaultData = NullData
    /\ masterPassword = NullPassword
    /\ isLocked = TRUE
    /\ error = NoError
    /\ appSettings = DefaultSettings
    /\ autoLockTimer = NullTimer
    /\ timers = {}
    /\ cleanup = NullTimer

\* generatePassword(length, options), lines 115-133.
GeneratePassword(p) ==
    LET c     == calls[p]
        chars == Chars(c.patch)
    IN
    /\ c.pc = "generate"
    /\ IF Len(chars) = 0
       THEN calls' = [calls EXCEPT ![p] =
                        [c EXCEPT !.pc = "done", !.status = "error",
                                  !.err = ErrNoCharType]]
       ELSE \E randomArray \in [1..c.next -> ByteInputs] :
               calls' = [calls EXCEPT ![p] =
                           [c EXCEPT !.pc = "done", !.status = "ok",
                                     !.out = [randomArray |-> randomArray],
                                     !.result =
                                        [password |-> PasswordFrom(chars, randomArray)]]]
    /\ UNCHANGED <<store, settingsStore, now, rnd, known, added, sessionVars>>

GenerateNext == GeneratePassword(1)

GenerateSpec == GenerateInit /\ [][GenerateNext]_vars

(* ------------------------ checkPasswordStrength ------------------------ *)

\* The characters matched by [A-Z], [a-z] and [0-9].
UpperSet == {UppercaseChars[i] : i \in DOMAIN UppercaseChars}

LowerSet == {LowercaseChars[i] : i \in DOMAIN LowercaseChars}

DigitSet == {NumberChars[i] : i \in DOMAIN NumberChars}

\* regex.test(password) for a one-character class: some character matches.
Test(set, password) == \E i \in DOMAIN password : password[i] \in set

\* /[^A-Za-z0-9]/.test(password).
TestOther(password) ==
    \E i \in DOMAIN password :
       password[i] \notin UpperSet \cup LowerSet \cup DigitSet

\* score += 1 when the condition holds.
Plus(cond) == IF cond THEN 1 ELSE 0

\* Math.min(a, b).
Min(a, b) == IF a <= b THEN a ELSE b

\* A slip in checkPasswordStrength: the score is not capped.
CheckPasswordStrength_NoCap(password) ==
    Plus(Len(password) >= 8) + Plus(Len(password) >= 12)
    + Plus(Test(UpperSet, password)) + Plus(Test(LowerSet, password))
    + Plus(Test(DigitSet, password)) + Plus(TestOther(password))

\* checkPasswordStrength(password), lines 142-155.
CheckPasswordStrength(password) ==
    LET score == Plus(Len(password) >= 8) + Plus(Len(password) >= 12)
                 + Plus(Test(UpperSet, password)) + Plus(Test(LowerSet, password))
                 + Plus(Test(DigitSet, password)) + Plus(TestOther(password))
    IN  Min(4, score)

\* The characters of the passwords checked: one of each class, and a space.
Alphabet == {"A", "a", "1", "!", " "}

\* The patterns the passwords checked are made of: up to four characters.
Patterns == UNION {[1..n -> Alphabet] : n \in 1..4}

\* The password of a given length that repeats a pattern.
Repeat(pattern, length) ==
    [i \in 1..length |-> pattern[((i - 1) % Len(pattern)) + 1]]

\* The passwords passed to checkPasswordStrength.
PasswordInputs ==
    {Repeat(pattern, length) : pattern \in Patterns, length \in 0..MaxPasswordLength}

\* A caller is about to call checkPasswordStrength(password).
StrengthInit ==
    /\ store = EmptyObject
    /\ settingsStore = EmptyObject
    /\ \E password \in PasswordInputs :
          calls = [p \in Procs |->
                     IF p = 1
                     THEN [IdleCall EXCEPT !.pc = "check",
                                           !.op = "checkPasswordStrength",
                                           !.patch = [password |-> password],
                                           !.status = "running"]
                     ELSE IdleCall]
    /\ now = 0
    /\ rnd = 0
    /\ known = {}
    /\ added = EmptyObject
    /\ currentVault = NullVault
    /\ vaultData = NullData
    /\ masterPassword = NullPassword
    /\ isLocked = TRUE
    /\ error = NoError
    /\ appSettings = DefaultSettings
    /\ autoLockTimer = NullTimer
    /\ timers = {}
    /\ cleanup = NullTimer

\* checkPasswordStrength(password).
CheckStrength(p) ==
    LET c == calls[p] IN
    /\ c.pc = "check"
    /\ calls' = [calls EXCEPT ![p] =
                    [c EXCEPT !.pc = "done", !.status = "ok",
                              !.score = CheckPasswordStrength(c.patch.password)]]
    /\ UNCHANGED <<store, settingsStore, now, rnd, known, added, sessionVars>>

StrengthNext == CheckStrength(1)

StrengthSpec == StrengthInit /\ [][StrengthNext]_vars

(* --------------------------- session actions --------------------------- *)

\* A session action throws in its try block before it calls the VaultService:
\* its catch block stores the message and rethrows.
Reject(p, action, e) ==
    /\ Free(p)
    /\ calls' = [calls EXCEPT ![p] =
                    [IdleCall EXCEPT !.pc = "done", !.action = action,
                                     !.status = "error", !.err = e,
                                     !.pre = store, !.cap = Closure]]
    /\ error' = SessionError(action)
    /\ UNCHANGED <<store, now, settingsStore, rnd, known, added,
                   currentVault, vaultData, masterPassword, isLocked, timerVars>>

\* A session action calls the VaultService: setError(null), then the call.
Invoke == 
    /\ error' = NoError
    /\ UNCHANGED <<currentVault, vaultData, masterPassword, isLocked, timerVars>>

\* The guard of the credential and settings actions:
\* !currentVault || !masterPassword || !vaultData.
VaultNotOpen ==
    \/ currentVault = NullVault
    \/ masterPassword = NullPassword
    \/ vaultData = NullData

\* The ids of the credentials the session shows.
ShownCredentialIds ==
    IF vaultData = NullData
    THEN {}
    ELSE {vaultData.credentials[i].id : i \in DOMAIN vaultData.credentials}

\* createNewVault(name, password).
CreateNewVault(p, max) ==
    /\ CanDraw("createVault", max)
    /\ \E n \in Names : CreateVault(p, "createNewVault", n, "hunter2")
    /\ Invoke

\* openExistingVault(id, password).
OpenExistingVault(p) ==
    /\ \E id \in known, pw \in Passwords : OpenVault(p, "openExistingVault", id, pw)
    /\ Invoke

\* lockVault(), lines 199-209, and the render that follows.
LockVault ==
    /\ vaultData' = NullData
    /\ masterPassword' = NullPassword
    /\ isLocked' = TRUE
    /\ appSettings' = appSettings
    /\ UNCHANGED <<store, calls, now, settingsStore, rnd, known, added, currentVault, error>>
    /\ Effect(FALSE, ClearTimeout(timers, autoLockTimer), NullTimer)

\* deleteVault(id).
SessionDeleteVault(p) ==
    /\ \E id \in known : RemoveVault(p, "deleteVault", id)
    /\ Invoke

\* renameVault(id, newName).
RenameVault(p, max) ==
    \E id \in known :
       IF \/ VaultNotOpen
          \/ currentVault.id # id
       THEN Reject(p, "renameVault", ErrNotOpenMismatch)
       ELSE /\ CanDraw("updateVault", max)
            /\ UpdateVault(p, "renameVault", id, masterPassword, vaultData,
                           "Work", NullPassword)
            /\ Invoke

\* changeMasterPassword(currentPassword, newPassword).
SessionChangeMasterPassword(p, max) ==
    \E currentPassword \in Passwords, newPassword \in NewPasswords :
       IF currentVault = NullVault
       THEN Reject(p, "changeMasterPassword", ErrNoVaultOpen)
       ELSE /\ CanDraw("updateVault", max)
            /\ UpdateVault(p, "changeMasterPassword", currentVault.id,
                           currentPassword, vaultData, Undefined, newPassword)
            /\ Invoke

\* addCredential(credential).
SessionAddCredential(p, max) ==
    \E credential \in CredentialInputs :
       IF VaultNotOpen
       THEN Reject(p, "addCredential", ErrNoVaultOpen)
       ELSE /\ CanDraw("addCredential", max)
            /\ AddCredential(p, "addCredential", currentVault.id, masterPassword,
                             credential)
            /\ Invoke

\* updateCredential(id, updates).
SessionUpdateCredential(p, max) ==
    \E id \in ShownCredentialIds \cup {NoId}, updates \in UpdateInputs :
       IF VaultNotOpen
       THEN Reject(p, "updateCredential", ErrNoVaultOpen)
       ELSE /\ CanDraw("updateCredential", max)
            /\ UpdateCredential(p, "updateCredential", currentVault.id,
                                masterPassword, id, updates)
            /\ Invoke

\* deleteCredential(id).
SessionDeleteCredential(p, max) ==
    \E id \in ShownCredentialIds \cup {NoId} :
       IF VaultNotOpen
       THEN Reject(p, "deleteCredential", ErrNoVaultOpen)
       ELSE /\ CanDraw("deleteCredential", max)
            /\ DeleteCredential(p, "deleteCredential", currentVault.id,
                                masterPassword, id)
            /\ Invoke

\* updateVaultSettings(newSettings): the settings passed to the VaultService
\* are the session's own settings with the new ones spread over them.
SessionUpdateVaultSettings(p, max) ==
    \E newSettings \in SettingsInputs :
       IF VaultNotOpen
       THEN Reject(p, "updateVaultSettings", ErrNoVaultOpen)
       ELSE /\ CanDraw("updateVaultSettings", max)
            /\ UpdateVaultSettings(p, "updateVaultSettings", currentVault.id,
                                   masterPassword,
                                   Spread(vaultData.settings, newSettings))
            /\ Invoke

\* The steps of the VaultService functions the session calls.
SessionStep(p) ==
    \/ OpenRead(p)
    \/ OpenSave(p)
    \/ UpdRead(p)
    \/ UpdSave(p)
    \/ CreateSave(p)
    \/ RemoveDelete(p)

\* The session provider driven by its user interface, one action at a time.
SessionNext ==
    \/ CreateNewVault(1, MaxSessionRand)
    \/ OpenExistingVault(1)
    \/ LockVault
    \/ SessionDeleteVault(1)
    \/ RenameVault(1, MaxSessionRand)
    \/ SessionChangeMasterPassword(1, MaxSessionRand)
    \/ SessionAddCredential(1, MaxSessionRand)
    \/ SessionUpdateCredential(1, MaxSessionRand)
    \/ SessionDeleteCredential(1, MaxSessionRand)
    \/ SessionUpdateVaultSettings(1, MaxSessionRand)
    \/ SessionStep(1)
    \/ Tick

SessionSpec == Init /\ [][SessionNext]_vars

\* The steps of createVault, openVault and removeVault.
DeleteStep(p) ==
    \/ OpenRead(p)
    \/ OpenSave(p)
    \/ CreateSave(p)
    \/ RemoveDelete(p)

\* The session provider of a user who creates, opens, locks and deletes
\* vaults, one action at a time.
DeleteNext ==
    \/ CreateNewVault(1, MaxDeleteRand)
    \/ OpenExistingVault(1)
    \/ LockVault
    \/ SessionDeleteVault(1)
    \/ DeleteStep(1)

DeleteSpec == Init /\ [][DeleteNext]_vars

\* The settings passed to updateSettings.
AppSettingsInputs ==
    { [autoLockTimeout |-> 0], [autoLockTimeout |-> 1], [darkMode |-> TRUE] }

\* updateSettings(newSettings), lines 402-416: the settings of the session
\* with the new ones spread over them are saved, then set.
UpdateSettings(p) ==
    /\ \E newSettings \in AppSettingsInputs :
          SaveSettings(p, "updateSettings", Spread(appSettings, newSettings))
    /\ UNCHANGED sessionVars

\* The callback of a pending timeout runs when its time has elapsed: the
\* lockVault of the render in which the effect set it, whose autoLockTimer
\* is the one that render saw, and the render that follows.
FireTimer ==
    \E t \in timers :
       /\ t.left = 0
       /\ vaultData' = NullData
       /\ masterPassword' = NullPassword
       /\ isLocked' = TRUE
       /\ appSettings' = appSettings
       /\ UNCHANGED <<store, calls, now, settingsStore, rnd, known, added,
                      currentVault, error>>
       /\ Effect(FALSE, ClearTimeout(timers \ {t}, t.captured),
                 IF t.captured # NullTimer THEN NullTimer ELSE autoLockTimer)

\* A minute passes on the pending timeouts.
Elapse ==
    /\ \E t \in timers : t.left > 0
    /\ timers' = {[t EXCEPT !.left = IF @ > 0 THEN @ - 1 ELSE 0] : t \in timers}
    /\ UNCHANGED <<store, calls, now, settingsStore, rnd, known, added,
                   currentVault, vaultData, masterPassword, isLocked, error,
                   appSettings, autoLockTimer, cleanup>>

\* The steps of the calls the session with its timer makes.
AutoLockStep(p) ==
    \/ OpenRead(p)
    \/ OpenSave(p)
    \/ UpdRead(p)
    \/ UpdSave(p)
    \/ CreateSave(p)
    \/ RemoveDelete(p)
    \/ SettingsSave(p)

\* The session provider with its auto-lock timer: one vault, one action at a
\* time, and the window's timeouts.
AutoLockNext ==
    \/ /\ known = {}
       /\ CreateNewVault(1, MaxLockRand)
    \/ OpenExistingVault(1)
    \/ LockVault
    \/ SessionDeleteVault(1)
    \/ RenameVault(1, MaxLockRand)
    \/ SessionAddCredential(1, MaxLockRand)
    \/ UpdateSettings(1)
    \/ AutoLockStep(1)
    \/ FireTimer
    \/ Elapse

AutoLockSpec == Init /\ [][AutoLockNext]_vars

\* The timeouts of the window fire, and its clock advances.
AutoLockFair ==
    AutoLockSpec /\ WF_vars(Elapse) /\ WF_vars(FireTimer)

\* The session provider when its user interface invokes a credential or
\* settings action while an earlier one is still awaiting the VaultService:
\* nothing in the actions waits for isLoading.  The vault is created once and
\* opened while nothing else is awaiting.
OverlapNext ==
    \/ /\ known = {}
       /\ CreateNewVault(1, MaxOverlapRand)
    \/ /\ Quiescent
       /\ OpenExistingVault(1)
    \/ \E p \in Procs : SessionAddCredential(p, MaxOverlapRand)
    \/ \E p \in Procs : SessionUpdateVaultSettings(p, MaxOverlapRand)
    \/ \E p \in Procs : AddStep(p)

OverlapSpec == Init /\ [][OverlapNext]_vars


(* ------------------------------ claims --------------------------------- *)

\* The call in slot p ends in this step.
Finishes(p) == Running(p) /\ calls'[p].pc = "done"

\* The call in slot p returns in this step.
Succeeds(p) == Finishes(p) /\ calls'[p].status = "ok"

\* The call in slot p throws in this step.
Fails(p) == Finishes(p) /\ calls'[p].status = "error"

\* The finished calls of a state.
Done(p) == calls[p].pc = "done"

MutatingOps ==
    {"addCredential", "updateCredential", "deleteCredential",
     "updateVaultSettings", "updateVault", "changeMasterPassword"}

\* C1: when changeMasterPassword(id, old, new) with old # new returns and no
\* other call was in flight with it, openVault(id, old) fails with the
\* generic error and openVault(id, new) returns the data that
\* openVault(id, old) returned before the rotation.
C1_RotationReplacesPassword ==
    [][\A p \in Procs :
          ( /\ Succeeds(p)
            /\ calls[p].op = "changeMasterPassword"
            /\ calls[p].pw # calls[p].newPw
            /\ calls'[p].alone )
          => LET c == calls'[p] IN
             /\ OpenResult(c.pre, c.id, c.pw).err = NoError
             /\ OpenResult(store', c.id, c.pw).err = ErrIncorrect
             /\ OpenResult(store', c.id, c.newPw).err = NoError
             /\ OpenResult(store', c.id, c.newPw).data
                   = OpenResult(c.pre, c.id, c.pw).data]_vars

\* A rotation to another password has returned on a vault that holds a credential.
C1_Witness ==
    \E p \in Procs :
       /\ Done(p)
       /\ calls[p].op = "changeMasterPassword"
       /\ calls[p].status = "ok"
       /\ calls[p].pw # calls[p].newPw
       /\ calls[p].alone
       /\ calls[p].data # NullData
       /\ Len(calls[p].data.credentials) = 1
       /\ OpenResult(store, calls[p].id, calls[p].newPw).err = NoError

\* C3 as claimed: updateVault called with a password that does not open the
\* vault throws and leaves the store as it was.
C3_UpdateVaultChecksPassword ==
    [][\A p \in Procs :
          ( /\ Finishes(p)
            /\ calls[p].op = "updateVault"
            /\ calls[p].action = "none"
            /\ OpenResult(calls[p].pre, calls[p].id, calls[p].pw).err = ErrIncorrect )
          => /\ calls'[p].status = "error"
             /\ store' = calls[p].pre]_vars

\* C6 as claimed: a mutation that throws leaves the store as it was when the
\* mutation was called.
C6_AllOrNothing ==
    [][\A p \in Procs :
          ( /\ Fails(p)
            /\ calls[p].op \in MutatingOps
            /\ calls'[p].alone )
          => store' = calls[p].pre]_vars

\* C9: when openVault(id, p) returns and no other call was in flight with it,
\* the record's ciphertext, iv and salt are the ones it had before, so a
\* second openVault(id, p) decrypts the data the first one returned.
C9_OpenIdempotent ==
    [][\A p \in Procs :
          ( /\ Succeeds(p)
            /\ calls[p].op = "openVault"
            /\ calls'[p].alone )
          => LET c == calls'[p] IN
             /\ c.id \in DOMAIN store'
             /\ store'[c.id].encryptedData = c.pre[c.id].encryptedData
             /\ store'[c.id].iv = c.pre[c.id].iv
             /\ store'[c.id].salt = c.pre[c.id].salt
             /\ OpenResult(store', c.id, c.pw).err = NoError
             /\ OpenResult(store', c.id, c.pw).data = c.data]_vars

\* An openVault has returned a vault that holds a credential, after the clock
\* moved, so that the record it wrote back differs from the one it read.
C9_Witness ==
    \E p \in Procs :
       /\ Done(p)
       /\ calls[p].op = "openVault"
       /\ calls[p].status = "ok"
       /\ calls[p].data # NullData
       /\ Len(calls[p].data.credentials) = 1
       /\ calls[p].id \in DOMAIN store
       /\ store[calls[p].id] # calls[p].pre[calls[p].id]

\* C10: when createVault(name, password) returns, the store holds one more
\* record, under an id no vault had, every other record is as it was, the new
\* record has createdAt = lastModified, and openVault(id, password) decrypts
\* no credentials, the four default categories and default category Login.
C10_CreateVault ==
    [][\A p \in Procs :
          ( /\ Succeeds(p)
            /\ calls[p].op = "createVault"
            /\ calls'[p].alone )
          => LET c == calls'[p]
                 opened == OpenResult(store', c.id, c.pw)
             IN
             /\ c.id \notin DOMAIN c.pre
             /\ c.id \notin known
             /\ DOMAIN store' = (DOMAIN c.pre) \cup {c.id}
             /\ \A k \in DOMAIN c.pre : store'[k] = c.pre[k]
             /\ store'[c.id].createdAt = store'[c.id].lastModified
             /\ store'[c.id].name = c.name
             /\ opened.err = NoError
             /\ opened.data.credentials = <<>>
             /\ opened.data.settings.categories
                   = <<"Login", "Financial", "Personal", "Work">>
             /\ opened.data.settings.defaultCategory = "Login"]_vars

\* A createVault has returned while the store held another vault.
C10_Witness ==
    \E p \in Procs :
       /\ Done(p)
       /\ calls[p].op = "createVault"
       /\ calls[p].status = "ok"
       /\ calls[p].pre # EmptyObject
       /\ calls[p].id \in DOMAIN store
       /\ Cardinality(DOMAIN store) = 2


\* The password whose key the record's ciphertext was encrypted under.
MasterPassword(encryptedVault) ==
    Base64ToArrayBuffer(encryptedVault.encryptedData).key.password

\* The session shows an open vault.
SessionOpen ==
    /\ ~isLocked
    /\ currentVault # NullVault
    /\ vaultData # NullData
    /\ masterPassword # NullPassword

\* C2 as claimed: when the session's changeMasterPassword(current, new), given
\* the vault's master password as current, resolves on the open vault, the
\* record opens with new, no longer opens with current, and opens with the
\* password the session caches.
C2_SessionRotates ==
    [][\A p \in Procs :
          ( /\ Succeeds(p)
            /\ calls[p].action = "changeMasterPassword"
            /\ calls[p].pw # calls[p].newPw
            /\ calls'[p].alone
            /\ SessionOpen
            /\ calls[p].id \in DOMAIN calls[p].pre
            /\ MasterPassword(calls[p].pre[calls[p].id]) = calls[p].pw )
          => LET c == calls'[p] IN
             /\ OpenResult(store', c.id, c.newPw).err = NoError
             /\ OpenResult(store', c.id, c.pw).err # NoError
             /\ OpenResult(store', c.id, masterPassword').err = NoError]_vars

\* C4 as claimed, for the session action: changeMasterPassword(current, new)
\* with a current password that is not the vault's master password throws and
\* leaves the store as it was.
C4_SessionRejectsWrongPassword ==
    [][\A p \in Procs :
          ( /\ Finishes(p)
            /\ calls[p].action = "changeMasterPassword"
            /\ calls'[p].alone
            /\ SessionOpen
            /\ calls[p].id \in DOMAIN calls[p].pre
            /\ MasterPassword(calls[p].pre[calls[p].id]) # calls[p].pw )
          => /\ calls'[p].status = "error"
             /\ store' = calls[p].pre]_vars

\* C5: when openExistingVault(id, password) is given a password other than
\* the master password of the record the store returns, openVault throws the
\* generic error and returns no data, the store is as it was when the call
\* was made, and isLocked, vaultData, masterPassword and currentVault are as
\* they were.
C5_WrongPasswordOpens ==
    [][\A p \in Procs :
          ( /\ Finishes(p)
            /\ calls[p].op = "openVault"
            /\ calls'[p].alone
            /\ calls[p].id \in DOMAIN calls[p].pre
            /\ MasterPassword(calls[p].pre[calls[p].id]) # calls[p].pw
            /\ calls'[p].err # ErrRetrieve )
          => /\ calls'[p].status = "error"
             /\ calls'[p].err = ErrIncorrect
             /\ calls'[p].data = NullData
             /\ store' = calls[p].pre
             /\ isLocked' = isLocked
             /\ vaultData' = vaultData
             /\ masterPassword' = masterPassword
             /\ currentVault' = currentVault]_vars

\* An openExistingVault with a wrong password has thrown, the session is
\* locked, and the clock has moved since the record was last written.
C5_Witness ==
    \E p \in Procs :
       /\ Done(p)
       /\ calls[p].action = "openExistingVault"
       /\ calls[p].err = ErrIncorrect
       /\ calls[p].id \in DOMAIN store
       /\ MasterPassword(store[calls[p].id]) # calls[p].pw
       /\ store[calls[p].id].lastAccessed < now
       /\ isLocked
       /\ vaultData = NullData


\* The ids of the credentials openVault decrypts from a record, in order.
PersistedIds(encryptedVault) ==
    LET data == OpenData(encryptedVault, MasterPassword(encryptedVault))
    IN  [i \in DOMAIN data.credentials |-> data.credentials[i].id]

\* C7: calls on one vault are not serialized.  When an addCredential returns,
\* the record holds exactly the sequence that call decrypted when it opened
\* the vault, with its own credential appended, whatever another call wrote
\* in between; the witness is a state where two addCredential calls on one
\* vault have both returned and the record holds one credential.
C7_LaterWriteWins ==
    [][\A p \in Procs :
          ( /\ Succeeds(p)
            /\ calls[p].op = "addCredential" )
          => LET c == calls'[p] IN
             /\ c.id \in DOMAIN store'
             /\ OpenResult(store', c.id, c.pw).err = NoError
             /\ OpenResult(store', c.id, c.pw).data
                   = JSONParse(JSONStringify(calls[p].data))
             /\ calls[p].data.credentials[Len(calls[p].data.credentials)]
                   = c.result]_vars

\* Two addCredential calls on one vault have both returned and the record
\* holds only one of the two credentials.
C7_Witness ==
    /\ \A p \in Procs :
          /\ Done(p)
          /\ calls[p].op = "addCredential"
          /\ calls[p].status = "ok"
          /\ calls[p].id = calls[1].id
    /\ calls[1].id \in DOMAIN store
    /\ Len(added[calls[1].id]) = 2
    /\ Len(PersistedIds(store[calls[1].id])) = 1
    /\ \E p \in Procs :
          PersistedIds(store[calls[1].id]) # <<calls[p].result.id>>

\* C8: in a run where a vault is created and then, one call after the other,
\* only addCredential and openVault are called, the record decrypts to the
\* credentials the addCredential calls returned, in the order of the calls,
\* with pairwise distinct ids.
C8_AddsAccumulate ==
    \A id \in DOMAIN store :
       /\ PersistedIds(store[id]) = added[id]
       /\ \A i, j \in DOMAIN added[id] : i # j => added[id][i] # added[id][j]
       /\ \A p \in Procs :
             ( /\ Done(p)
               /\ calls[p].op = "openVault"
               /\ calls[p].status = "ok"
               /\ calls[p].id = id )
             => [i \in DOMAIN calls[p].data.credentials |->
                    calls[p].data.credentials[i].id] = added[id]

\* Two addCredential calls have returned and an openVault after them returned
\* two credentials.
C8_Witness ==
    \E p \in Procs :
       /\ Done(p)
       /\ calls[p].op = "openVault"
       /\ calls[p].status = "ok"
       /\ Len(calls[p].data.credentials) = 2
       /\ Len(added[calls[p].id]) = 2


\* C11 as claimed: a vault id createVault has returned and the store no
\* longer holds, because removeVault deleted its record, is never in the
\* store again, whatever calls were in flight when the record was deleted.
C11_RemovedStaysRemoved ==
    [][\A id \in known :
          id \notin DOMAIN store => id \notin DOMAIN store']_vars

\* A changeMasterPassword on vault id returns in this step.
Rotates(id) ==
    \E p \in Procs :
       /\ Succeeds(p)
       /\ calls[p].op = "changeMasterPassword"
       /\ calls[p].id = id

C13_CipherIvSaltUnit ==
    \A id \in DOMAIN store :
       LET bytes == Base64ToArrayBuffer(store[id].encryptedData) IN
       /\ bytes.iv = Base64ToArrayBuffer(store[id].iv)
       /\ bytes.key.salt = Base64ToArrayBuffer(store[id].salt)

\* A changeMasterPassword and an updateVault in flight together have both
\* returned, and the record is the one updateVault built from what it read
\* before the rotation wrote: its salt is not the one the rotation wrote.
C13_Witness ==
    \E p, q \in Procs :
       /\ Done(p) /\ Done(q)
       /\ calls[p].op = "changeMasterPassword"
       /\ calls[q].op = "updateVault"
       /\ calls[p].status = "ok"
       /\ calls[q].status = "ok"
       /\ ~calls[p].alone
       /\ calls[p].id = calls[q].id
       /\ calls[q].id \in DOMAIN store
       /\ store[calls[q].id] = calls[q].out
       /\ store[calls[q].id].salt # calls[p].out.salt

\* C14 as claimed: when the session's changeMasterPassword, given the vault's
\* master password, resolves on the open vault, the session is closed as
\* lockVault closes it: isLocked is true and vaultData and masterPassword are
\* cleared.
C14_RotationCloses ==
    [][\A p \in Procs :
          ( /\ Succeeds(p)
            /\ calls[p].action = "changeMasterPassword"
            /\ calls[p].pw # calls[p].newPw
            /\ SessionOpen
            /\ calls[p].id \in DOMAIN calls[p].pre
            /\ MasterPassword(calls[p].pre[calls[p].id]) = calls[p].pw )
          => /\ isLocked'
             /\ vaultData' = NullData
             /\ masterPassword' = NullPassword]_vars

\* The session actions that mutate the open vault.
SessionMutations ==
    {"addCredential", "updateCredential", "deleteCredential",
     "updateVaultSettings", "renameVault"}

\* C15: when one of the session's addCredential, updateCredential,
\* deleteCredential, updateVaultSettings and renameVault resolves while the
\* session is open, the session stays open on the same vault: isLocked stays
\* false, currentVault.id and masterPassword are as they were, and vaultData
\* is not null.
C15_MutationStaysOpen ==
    [][\A p \in Procs :
          ( /\ Succeeds(p)
            /\ calls[p].action \in SessionMutations
            /\ SessionOpen )
          => /\ ~isLocked'
             /\ currentVault' # NullVault
             /\ currentVault'.id = currentVault.id
             /\ masterPassword' = masterPassword
             /\ vaultData' # NullData]_vars

\* The session's renameVault has resolved on the open vault, and the session
\* is open on the renamed vault.
C15_Witness ==
    \E p \in Procs :
       /\ Done(p)
       /\ calls[p].action = "renameVault"
       /\ calls[p].status = "ok"
       /\ SessionOpen
       /\ currentVault.name = "Work"
       /\ currentVault.id = calls[p].id
       /\ store[currentVault.id].name = "Work"

\* The record is as an encryption wrote it: its fields decode, and its
\* ciphertext was made under its iv and a key derived from its salt.
Intact(encryptedVault) ==
    /\ Decodes(encryptedVault.encryptedData)
    /\ Decodes(encryptedVault.iv)
    /\ Decodes(encryptedVault.salt)
    /\ Base64ToArrayBuffer(encryptedVault.encryptedData).key # NoKey
    /\ Base64ToArrayBuffer(encryptedVault.encryptedData).iv
          = Base64ToArrayBuffer(encryptedVault.iv)
    /\ Base64ToArrayBuffer(encryptedVault.encryptedData).key.salt
          = Base64ToArrayBuffer(encryptedVault.salt)

\* C16: when openVault has read a record and either the record's ciphertext,
\* iv or salt is damaged or the password is not the master password, the
\* call ends the same way in both cases: it throws the one generic error,
\* returns no data and leaves the store as it is.
C16_AntiOracle ==
    [][\A p \in Procs :
          ( /\ calls[p].op = "openVault"
            /\ calls[p].pc = "open_get"
            /\ calls'[p].pc # "open_get"
            /\ calls[p].id \in DOMAIN store
            /\ calls'[p].err # ErrRetrieve
            /\ \/ ~Intact(store[calls[p].id])
               \/ MasterPassword(store[calls[p].id]) # calls[p].pw )
          => /\ calls'[p].status = "error"
             /\ calls'[p].err = ErrIncorrect
             /\ calls'[p].data = NullData
             /\ store' = store]_vars

\* An openVault with the master password has thrown the generic error on a
\* record whose salt is damaged and whose ciphertext and iv are intact.
C16_Witness ==
    \E p \in Procs :
       /\ Done(p)
       /\ calls[p].op = "openVault"
       /\ calls[p].err = ErrIncorrect
       /\ calls[p].id \in DOMAIN store
       /\ store[calls[p].id].salt = ArrayBufferToBase64(OtherBytes)
       /\ Decodes(store[calls[p].id].encryptedData)
       /\ Decodes(store[calls[p].id].iv)
       /\ Base64ToArrayBuffer(store[calls[p].id].encryptedData).iv
             = Base64ToArrayBuffer(store[calls[p].id].iv)
       /\ MasterPassword(store[calls[p].id]) = calls[p].pw

\* What openVault decrypts from the store st with the arguments of call c.
Persisted(st, c) == OpenResult(st, c.id, c.pw).data

\* The call in slot p opens, at the time it is made, a vault that holds data.
OpensData(p) ==
    /\ OpenResult(calls[p].pre, calls[p].id, calls[p].pw).err = NoError
    /\ Persisted(calls[p].pre, calls[p]) # NullData

\* C17: when updateCredential returns, made with nothing else in flight on
\* a vault that holds credentialId, the persisted sequence has the same
\* length, every other credential and the settings are as they were, and the
\* credential at the position of credentialId keeps its id and createdAt,
\* has the fields of updates (a field given as undefined is absent), keeps
\* its other fields and has a lastModified not smaller than before.  When
\* the vault does not hold credentialId and the store does not fail, the
\* call throws "Credential not found" and the persisted data is as it was.
C17_UpdateCredential ==
    [][\A p \in Procs :
          ( /\ Finishes(p)
            /\ calls[p].op = "updateCredential"
            /\ calls'[p].alone
            /\ OpensData(p) )
          => LET c      == calls'[p]
                 before == Persisted(c.pre, c)
                 after  == Persisted(store', c)
                 index  == FindIndex(before.credentials, c.credId)
             IN
             IF index = 0
             THEN /\ c.status = "error"
                  /\ c.err \in {ErrCredNotFound, ErrRetrieve, ErrIncorrect}
                  /\ calls[p].pc = "open_save" /\ store' # store
                        => c.err = ErrCredNotFound
                  /\ OpenResult(store', c.id, c.pw).err = NoError
                  /\ after = before
             ELSE c.status = "ok" =>
                  LET old == before.credentials[index]
                      new == after.credentials[index]
                  IN
                  /\ OpenResult(store', c.id, c.pw).err = NoError
                  /\ Len(after.credentials) = Len(before.credentials)
                  /\ \A j \in DOMAIN before.credentials :
                        j # index => after.credentials[j] = before.credentials[j]
                  /\ after.settings = before.settings
                  /\ new.id = old.id
                  /\ new.createdAt = old.createdAt
                  /\ new.lastModified >= old.lastModified
                  /\ \A k \in DOMAIN c.patch :
                        IF c.patch[k] = Undefined
                        THEN k \notin DOMAIN new
                        ELSE k \in DOMAIN new /\ new[k] = c.patch[k]
                  /\ \A k \in (DOMAIN old) \ (DOMAIN c.patch \cup {"lastModified"}) :
                        k \in DOMAIN new /\ new[k] = old[k]
                  /\ DOMAIN new \subseteq (DOMAIN old) \cup (DOMAIN c.patch)]_vars

\* An updateCredential has returned for the second of two credentials, after
\* the clock moved, and the first one has a url the update did not touch.
C17_Witness ==
    \E p \in Procs :
       /\ Done(p)
       /\ calls[p].op = "updateCredential"
       /\ calls[p].status = "ok"
       /\ Len(calls[p].data.credentials) = 2
       /\ calls[p].data.credentials[2].id = calls[p].credId
       /\ calls[p].result.createdAt < calls[p].result.lastModified
       /\ calls[p].result.title = "Mail"
       /\ Persisted(store, calls[p]) = JSONParse(JSONStringify(calls[p].data))

\* An updateCredential for an id the vault does not hold has thrown
\* "Credential not found" on a vault that holds a credential.
C17_WitnessAbsent ==
    \E p \in Procs :
       /\ Done(p)
       /\ calls[p].op = "updateCredential"
       /\ calls[p].err = ErrCredNotFound
       /\ calls[p].credId = NoId
       /\ Len(calls[p].data.credentials) = 1

\* The errors a mutation made with the master password throws when the
\* store fails under it.
StorageErrors == {ErrRetrieve, ErrIncorrect, ErrUpdate}

\* C18: a deleteCredential made with nothing else in flight on a vault that
\* opens throws only when the store fails.  When it returns, the settings are
\* as they were and the persisted sequence is the previous one without the
\* credential that has credentialId, the others at their places in order;
\* when no credential has credentialId the persisted data is as it was.
C18_DeleteCredential ==
    [][\A p \in Procs :
          ( /\ Finishes(p)
            /\ calls[p].op = "deleteCredential"
            /\ calls'[p].alone
            /\ OpensData(p) )
          => LET c      == calls'[p]
                 before == Persisted(c.pre, c)
                 after  == Persisted(store', c)
                 index  == FindIndex(before.credentials, c.credId)
             IN
             /\ c.status = "error" => c.err \in StorageErrors
             /\ c.status = "ok" =>
                  /\ OpenResult(store', c.id, c.pw).err = NoError
                  /\ after.settings = before.settings
                  /\ \A j \in DOMAIN after.credentials :
                        after.credentials[j].id # c.credId
                  /\ IF index = 0
                     THEN after = before
                     ELSE /\ Len(after.credentials) = Len(before.credentials) - 1
                          /\ \A j \in DOMAIN after.credentials :
                                after.credentials[j] =
                                   IF j < index
                                   THEN before.credentials[j]
                                   ELSE before.credentials[j + 1]]_vars

\* A deleteCredential has returned for the first of two credentials, and
\* the record holds the second one.
C18_Witness ==
    \E p \in Procs :
       /\ Done(p)
       /\ calls[p].op = "deleteCredential"
       /\ calls[p].status = "ok"
       /\ Len(Persisted(calls[p].pre, calls[p]).credentials) = 2
       /\ Persisted(calls[p].pre, calls[p]).credentials[1].id = calls[p].credId
       /\ Persisted(store, calls[p]).credentials
             = <<Persisted(calls[p].pre, calls[p]).credentials[2]>>

\* A deleteCredential for an id the vault does not hold has returned on a
\* vault that holds a credential.
C18_WitnessAbsent ==
    \E p \in Procs :
       /\ Done(p)
       /\ calls[p].op = "deleteCredential"
       /\ calls[p].status = "ok"
       /\ calls[p].credId = NoId
       /\ Len(Persisted(store, calls[p]).credentials) = 1

\* Reading member k of object o: undefined when o has no such member.
Read(o, k) == IF k \in DOMAIN o THEN o[k] ELSE Undefined

\* Objects a and b read the same, member by member.
SameMembers(a, b) ==
    \A k \in (DOMAIN a) \cup (DOMAIN b) : Read(a, k) = Read(b, k)

\* C19: when addCredential returns, made with nothing else in flight on a
\* vault that opens, the persisted sequence is the previously persisted one
\* followed by one credential, whose members read as those of the credential
\* passed, whose id no previous credential has and whose createdAt equals its
\* lastModified; the credential returned reads, member by member, as the one
\* openVault then decrypts.
C19_AddCredentialAppends ==
    [][\A p \in Procs :
          ( /\ Succeeds(p)
            /\ calls[p].op = "addCredential"
            /\ calls'[p].alone
            /\ OpensData(p) )
          => LET c      == calls'[p]
                 before == Persisted(c.pre, c)
                 after  == Persisted(store', c)
                 n      == Len(before.credentials)
                 new    == after.credentials[n + 1]
             IN
             /\ OpenResult(store', c.id, c.pw).err = NoError
             /\ Len(after.credentials) = n + 1
             /\ SubSeq(after.credentials, 1, n) = before.credentials
             /\ after.settings = before.settings
             /\ \A k \in DOMAIN c.cred : Read(new, k) = c.cred[k]
             /\ DOMAIN new \subseteq
                   (DOMAIN c.cred) \cup {"id", "createdAt", "lastModified"}
             /\ \A j \in 1..n : before.credentials[j].id # new.id
             /\ new.createdAt = new.lastModified
             /\ SameMembers(c.result, new)]_vars

\* An addCredential of a credential whose url is undefined has returned,
\* after the clock moved, on a vault that already held a credential: the
\* credential returned has a url member, the persisted one has none.
C19_Witness ==
    \E p \in Procs :
       /\ Done(p)
       /\ calls[p].op = "addCredential"
       /\ calls[p].status = "ok"
       /\ calls[p].cred.url = Undefined
       /\ calls[p].result.createdAt > 0
       /\ Len(Persisted(calls[p].pre, calls[p]).credentials) = 1
       /\ Len(Persisted(store, calls[p]).credentials) = 2
       /\ "url" \in DOMAIN calls[p].result
       /\ "url" \notin DOMAIN Persisted(store, calls[p]).credentials[2]

\* C20: when updateVaultSettings returns, made with nothing else in flight
\* on a vault that opens, every persisted settings field named in the
\* settings passed has the value passed, every other settings field has the
\* value persisted before, and the credential sequence is as it was.
C20_SettingsMerge ==
    [][\A p \in Procs :
          ( /\ Succeeds(p)
            /\ calls[p].op = "updateVaultSettings"
            /\ calls'[p].alone
            /\ OpensData(p) )
          => LET c      == calls'[p]
                 before == Persisted(c.pre, c)
                 after  == Persisted(store', c)
             IN
             /\ OpenResult(store', c.id, c.pw).err = NoError
             /\ DOMAIN after.settings
                   = (DOMAIN before.settings) \cup (DOMAIN c.patch)
             /\ \A k \in DOMAIN c.patch : after.settings[k] = c.patch[k]
             /\ \A k \in (DOMAIN before.settings) \ (DOMAIN c.patch) :
                   after.settings[k] = before.settings[k]
             /\ after.credentials = before.credentials]_vars

\* An updateVaultSettings that sets autoLockTimeout has returned on a vault
\* that holds a credential and whose defaultCategory an earlier call had
\* set to Work: the record has both values.
C20_Witness ==
    \E p \in Procs :
       /\ Done(p)
       /\ calls[p].op = "updateVaultSettings"
       /\ calls[p].status = "ok"
       /\ DOMAIN calls[p].patch = {"autoLockTimeout"}
       /\ Persisted(calls[p].pre, calls[p]).settings.defaultCategory = "Work"
       /\ Persisted(calls[p].pre, calls[p]).settings.autoLockTimeout = 15
       /\ Persisted(store, calls[p]).settings.defaultCategory = "Work"
       /\ Persisted(store, calls[p]).settings.autoLockTimeout = 5
       /\ Len(Persisted(store, calls[p]).credentials) = 1

\* An importData call ends in this step, at its call or at a later await.
ImportEnded(p) ==
    /\ calls'[p] # calls[p]
    /\ calls'[p].op = "importData"
    /\ calls'[p].pc = "done"

\* The ids of the records a backup lists.
ListedIds(items) == {items[i].id : i \in DOMAIN items}

\* The last record a backup lists under id.
LastListed(items, id) ==
    items[CHOOSE i \in DOMAIN items :
             /\ items[i].id = id
             /\ \A j \in DOMAIN items : items[j].id = id => j <= i]

\* C21: when importData ends on a backup object whose vaults member is
\* missing or not an array, it has thrown "Invalid backup format" and the
\* vault store and the settings store are as they were at the call (a text
\* that is not JSON, or the JSON text null, is rejected with another error,
\* also with nothing written).  When it returns, the vault store holds, for
\* every id listed, the record the backup lists under it, and every other
\* record as it was; the settings store has changed only if the backup's
\* settings is not null, and then its record is the backup's settings.
C21_ImportData ==
    [][\A p \in Procs :
          ImportEnded(p)
          => LET c == calls'[p] IN
             /\ c.backup \in {InvalidJson, NullJson}
                   => /\ c.status = "error"
                      /\ c.err \in {ErrSyntaxError, ErrTypeError}
                      /\ store' = c.pre /\ store' = store
                      /\ settingsStore' = c.preSettings
             /\ ( /\ c.backup \notin {InvalidJson, NullJson}
                  /\ InvalidFormat(c.backup) )
                   => /\ c.status = "error"
                      /\ c.err = ErrInvalidBackup
                      /\ store' = c.pre /\ store' = store
                      /\ settingsStore' = c.preSettings
                      /\ settingsStore' = settingsStore
             /\ c.status = "ok"
                   => LET items == c.backup.vaults.items IN
                      /\ DOMAIN store' = (DOMAIN c.pre) \cup ListedIds(items)
                      /\ \A id \in ListedIds(items) :
                            store'[id] = LastListed(items, id)
                      /\ \A id \in (DOMAIN c.pre) \ ListedIds(items) :
                            store'[id] = c.pre[id]
                      /\ settingsStore' # c.preSettings
                            => c.backup.settings # NullSettings
                      /\ c.backup.settings # NullSettings
                            => /\ GetSettings(settingsStore') = c.backup.settings
                               /\ DOMAIN settingsStore' = {AppSettingsId}
                      /\ c.backup.settings = NullSettings
                            => settingsStore' = c.preSettings]_vars

\* An importData of a backup that lists a copy of the stored vault and a
\* foreign vault, with settings, has returned over a store that held a
\* renamed vault and other settings: the stored vault is replaced, the
\* foreign one added, the settings overwritten.
C21_Witness ==
    \E p \in Procs :
       /\ Done(p)
       /\ calls[p].op = "importData"
       /\ calls[p].status = "ok"
       /\ Len(calls[p].backup.vaults.items) = 2
       /\ \E id \in DOMAIN calls[p].pre :
             /\ calls[p].pre[id].name = "Work"
             /\ store[id] = BackupCopy(id)
       /\ ForeignVault.id \in (DOMAIN store) \ (DOMAIN calls[p].pre)
       /\ GetSettings(calls[p].preSettings) # NullSettings
       /\ GetSettings(settingsStore) = calls[p].backup.settings
       /\ GetSettings(settingsStore) # GetSettings(calls[p].preSettings)

\* An importData of a backup whose vaults member is missing has thrown over
\* a store that holds a vault and settings.
C21_WitnessRejected ==
    \E p \in Procs :
       /\ Done(p)
       /\ calls[p].op = "importData"
       /\ calls[p].err = ErrInvalidBackup
       /\ calls[p].backup.vaults.type = "undefined"
       /\ calls[p].backup.settings # NullSettings
       /\ store # EmptyObject
       /\ GetSettings(settingsStore) # NullSettings
       /\ GetSettings(settingsStore) # calls[p].backup.settings

\* Values a and b read the same: both null, or the same settings and
\* credentials that read the same member by member.
SameData(a, b) ==
    IF a = NullData \/ b = NullData
    THEN a = b
    ELSE /\ a.settings = b.settings
         /\ Len(a.credentials) = Len(b.credentials)
         /\ \A i \in DOMAIN a.credentials :
               SameMembers(a.credentials[i], b.credentials[i])

\* The decrypt of call c got the key, the bytes and the iv of the encryption.
SameKeyBytesIv(c) ==
    c.vault = [key |-> c.ev.key, encryptedData |-> c.out.encryptedData,
               iv |-> c.out.iv]

C22_WitnessOtherSalt ==
    \E p \in Procs :
       /\ Done(p)
       /\ calls[p].op = "decrypt"
       /\ calls[p].status = "error"
       /\ calls[p].vault.key.password = calls[p].pw
       /\ calls[p].vault.key.salt # calls[p].ev.salt
       /\ calls[p].vault.iv = calls[p].out.iv
       /\ calls[p].vault.encryptedData = calls[p].out.encryptedData

\* The characters of the classes selected by options.
SelectedChars(options) ==
    (IF options.uppercase THEN {UppercaseChars[i] : i \in DOMAIN UppercaseChars} ELSE {})
    \cup (IF options.lowercase THEN {LowercaseChars[i] : i \in DOMAIN LowercaseChars} ELSE {})
    \cup (IF options.numbers THEN {NumberChars[i] : i \in DOMAIN NumberChars} ELSE {})
    \cup (IF options.symbols THEN {SymbolChars[i] : i \in DOMAIN SymbolChars} ELSE {})

\* The concatenation of the four classes in the order of the code.
AllChars == UppercaseChars \o LowercaseChars \o NumberChars \o SymbolChars

\* The position of character ch in the concatenation of the selected
\* classes, counted from 0: the characters of selected classes before it.
IndexIn(options, ch) ==
    Cardinality({i \in DOMAIN AllChars :
                    /\ AllChars[i] \in SelectedChars(options)
                    /\ \E j \in DOMAIN AllChars : j > i /\ AllChars[j] = ch})

\* C23: when generatePassword(length, options) ends, with every flag false
\* it has thrown and produced no string; otherwise it has returned a string
\* of exactly length characters, made from one random byte per character,
\* each a character of a selected class, at the position (byte mod charset
\* length) of the concatenation of the selected classes.
C23_GeneratePassword ==
    \A p \in Procs :
       ( Done(p) /\ calls[p].op = "generatePassword" )
       => LET c == calls[p]
              none == ~c.patch.uppercase /\ ~c.patch.lowercase
                      /\ ~c.patch.numbers /\ ~c.patch.symbols
          IN
          IF none
          THEN /\ c.status = "error"
               /\ c.err = ErrNoCharType
               /\ c.result = EmptyObject
          ELSE /\ c.status = "ok"
               /\ Len(c.result.password) = c.next
               /\ Len(c.out.randomArray) = c.next
               /\ \A i \in 1..c.next :
                     /\ c.result.password[i] \in SelectedChars(c.patch)
                     /\ IndexIn(c.patch, c.result.password[i])
                           = c.out.randomArray[i]
                                % Cardinality(SelectedChars(c.patch))

\* generatePassword(3, uppercase only) has returned a string whose bytes
\* wrapped around the 26 letters.
C23_Witness ==
    \E p \in Procs :
       /\ Done(p)
       /\ calls[p].op = "generatePassword"
       /\ calls[p].status = "ok"
       /\ calls[p].patch = [uppercase |-> TRUE, lowercase |-> FALSE,
                            numbers |-> FALSE, symbols |-> FALSE]
       /\ calls[p].out.randomArray = <<26, 255, 25>>
       /\ calls[p].result.password = <<"A", "V", "Z">>

\* generatePassword with every flag false has thrown.
C23_WitnessNoClass ==
    \E p \in Procs :
       /\ Done(p)
       /\ calls[p].op = "generatePassword"
       /\ calls[p].err = ErrNoCharType
       /\ calls[p].next = MaxLength

\* The criteria a password meets: the two length thresholds and the four
\* character classes.
Criteria(password) ==
    (IF Len(password) >= 8 THEN {"len8"} ELSE {})
    \cup (IF Len(password) >= 12 THEN {"len12"} ELSE {})
    \cup (IF \E i \in DOMAIN password : password[i] \in UpperSet
          THEN {"upper"} ELSE {})
    \cup (IF \E i \in DOMAIN password : password[i] \in LowerSet
          THEN {"lower"} ELSE {})
    \cup (IF \E i \in DOMAIN password : password[i] \in DigitSet
          THEN {"digit"} ELSE {})
    \cup (IF \E i \in DOMAIN password :
               password[i] \notin UpperSet \cup LowerSet \cup DigitSet
          THEN {"other"} ELSE {})

\* C24: the number checkPasswordStrength returns is the number of criteria
\* the password meets (two length thresholds, four character classes),
\* capped at 4: an integer in 0..4; and the number returned for the password
\* with one more character, which meets at least the same criteria, is not
\* smaller.
C24_PasswordStrength ==
    \A p \in Procs :
       ( Done(p) /\ calls[p].op = "checkPasswordStrength" )
       => LET password == calls[p].patch.password
              n == Cardinality(Criteria(password))
          IN
          /\ calls[p].score = IF n >= 4 THEN 4 ELSE n
          /\ calls[p].score \in 0..4
          /\ \A ch \in Alphabet :
                /\ Criteria(password) \subseteq Criteria(Append(password, ch))
                /\ CheckPasswordStrength(Append(password, ch)) >= calls[p].score

\* checkPasswordStrength has returned 4 for a password of twelve characters
\* with all four classes, which meets six criteria.
C24_Witness ==
    \E p \in Procs :
       /\ Done(p)
       /\ calls[p].op = "checkPasswordStrength"
       /\ calls[p].patch.password
             = <<"A", "a", "1", "!", "A", "a", "1", "!", "A", "a", "1", "!">>
       /\ calls[p].score = 4

\* checkPasswordStrength has returned 1 for the password "a".
C24_WitnessWeak ==
    \E p \in Procs :
       /\ Done(p)
       /\ calls[p].op = "checkPasswordStrength"
       /\ calls[p].patch.password = <<"a">>
       /\ calls[p].score = 1

\* C25: when openVault returns, made with nothing else in flight, the record
\* is the one the store held when the call was made except for its
\* lastAccessed, which is not smaller than it was; id, name, ciphertext, iv,
\* salt, createdAt and lastModified are as they were, and so is every other
\* record.
C25_OpenTouchesLastAccessed ==
    [][\A p \in Procs :
          ( /\ Succeeds(p)
            /\ calls[p].op = "openVault"
            /\ calls'[p].alone )
          => LET c   == calls'[p]
                 old == c.pre[c.id]
                 new == store'[c.id]
             IN
             /\ DOMAIN store' = DOMAIN c.pre
             /\ \A k \in (DOMAIN c.pre) \ {c.id} : store'[k] = c.pre[k]
             /\ new.id = old.id
             /\ new.name = old.name
             /\ new.encryptedData = old.encryptedData
             /\ new.iv = old.iv
             /\ new.salt = old.salt
             /\ new.createdAt = old.createdAt
             /\ new.lastModified = old.lastModified
             /\ new.lastAccessed >= old.lastAccessed
             /\ new = [old EXCEPT !.lastAccessed = c.vault.lastAccessed]]_vars

\* An openVault has returned after the clock moved, with another vault in
\* the store: the record's lastAccessed is later than it was and later than
\* its lastModified.
C25_Witness ==
    \E p \in Procs :
       /\ Done(p)
       /\ calls[p].op = "openVault"
       /\ calls[p].status = "ok"
       /\ calls[p].alone
       /\ Cardinality(DOMAIN store) = 2
       /\ calls[p].id \in DOMAIN store
       /\ store[calls[p].id].lastAccessed > calls[p].pre[calls[p].id].lastAccessed
       /\ store[calls[p].id].lastAccessed > store[calls[p].id].lastModified

\* The record r has the ciphertext, iv, salt, name and lastModified of w.
KeepsWrite(r, w) ==
    /\ r.encryptedData = w.encryptedData
    /\ r.iv = w.iv
    /\ r.salt = w.salt
    /\ r.name = w.name
    /\ r.lastModified = w.lastModified

\* C26 as claimed: when an openVault returns and a mutation of the same
\* vault, in flight together with it, has returned and its record is the
\* one persisted, the record persisted after the openVault still has the
\* ciphertext, iv, salt, name and lastModified the mutation wrote.
C26_OpenKeepsMutation ==
    [][\A p, q \in Procs :
          ( /\ Succeeds(p)
            /\ calls[p].op = "openVault"
            /\ ~calls[p].alone
            /\ q # p
            /\ Done(q)
            /\ calls[q].op \in MutatingOps
            /\ calls[q].status = "ok"
            /\ calls[q].id = calls[p].id
            /\ calls[p].id \in DOMAIN store
            /\ store[calls[p].id] = calls[q].out )
          => /\ calls[p].id \in DOMAIN store'
             /\ KeepsWrite(store'[calls[p].id], calls[q].out)]_vars

\* C27 as claimed: after a changeMasterPassword(id, old, new) with old # new
\* has returned, every step of a call on the same vault that was in flight
\* together with it leaves a record that new opens and old does not open.
C27_RotationDurable ==
    [][\A p, q \in Procs :
          ( /\ p # q
            /\ Done(p)
            /\ calls[p].op = "changeMasterPassword"
            /\ calls[p].status = "ok"
            /\ calls[p].pw # calls[p].newPw
            /\ Running(q)
            /\ calls'[q] # calls[q]
            /\ ~calls[q].alone
            /\ calls[q].id = calls[p].id )
          => /\ OpenResult(store', calls[p].id, calls[p].pw).err # NoError
             /\ OpenResult(store', calls[p].id, calls[p].newPw).err = NoError]_vars

\* C28 as claimed: when openVault throws "Incorrect master password or
\* corrupted data", the record just read failed to decode or decrypt under
\* the password given; when it throws "Vault not found", the store holds no
\* record under the id; and a call that throws at a write to the store (the
\* lastAccessed write of openVault, the write of updateVault) does not
\* throw the incorrect-password error.
C28_ErrorTaxonomy ==
    [][\A p \in Procs :
          Fails(p)
          => /\ ( calls[p].op = "openVault" /\ calls'[p].err = ErrIncorrect )
                   => /\ calls[p].pc = "open_get"
                      /\ calls[p].id \in DOMAIN store
                      /\ ~OpenDecrypts(store[calls[p].id], calls[p].pw)
             /\ ( calls[p].op = "openVault" /\ calls'[p].err = ErrVaultNotFound )
                   => calls[p].id \notin DOMAIN store
             /\ calls[p].pc \in {"open_save", "upd_save"}
                   => calls'[p].err # ErrIncorrect]_vars

\* The operations that take a vault id and read its record first.
VaultOps == MutatingOps \cup {"openVault"}

\* C29: when openVault, updateVault, addCredential, updateCredential,
\* deleteCredential, updateVaultSettings or changeMasterPassword ends, called
\* with nothing else in flight and with an id under which the store held no
\* record (never created, or removed), it has thrown "Vault not found" (or
\* the storage error of a failed read), at its first read, and the store is
\* as it was: it holds no record under the id.
C29_AbsentVault ==
    [][\A p \in Procs :
          ( /\ Finishes(p)
            /\ calls[p].op \in VaultOps
            /\ calls'[p].alone
            /\ calls[p].id \notin DOMAIN calls[p].pre )
          => LET c == calls'[p] IN
             /\ c.status = "error"
             /\ c.err \in {ErrVaultNotFound, ErrRetrieve}
             /\ calls[p].pc \in {"open_get", "upd_get"}
             /\ c.id \notin DOMAIN store'
             /\ store' = c.pre
             /\ store' = store]_vars

\* An addCredential on the id of a removed vault has thrown "Vault not
\* found", and the store holds no record under it.
C29_Witness ==
    \E p \in Procs :
       /\ Done(p)
       /\ calls[p].op = "addCredential"
       /\ calls[p].err = ErrVaultNotFound
       /\ calls[p].id \in known
       /\ calls[p].id \notin DOMAIN store

\* An updateVault on an id no vault ever had has thrown "Vault not found"
\* while the store holds another vault.
C29_WitnessNeverCreated ==
    \E p \in Procs :
       /\ Done(p)
       /\ calls[p].op = "updateVault"
       /\ calls[p].err = ErrVaultNotFound
       /\ calls[p].id \notin known
       /\ store # EmptyObject

\* C30 as claimed: in every state of the session, isLocked implies that
\* vaultData and masterPassword are null, also when lockVault ran while a
\* session action was awaiting the VaultService and the action resolved
\* afterwards.
C30_LockedHoldsNoPlaintext ==
    isLocked => ( vaultData = NullData /\ masterPassword = NullPassword )

\* The plaintext under the record's ciphertext is a serialized VaultData: an
\* object with a credentials sequence and settings.
WellFormed(encryptedVault) ==
    LET text == Base64ToArrayBuffer(encryptedVault.encryptedData).text
    IN  /\ text.json = "object"
        /\ {"credentials", "settings"} \subseteq DOMAIN text

\* C31 as claimed: in every state of the session, whatever actions were
\* invoked, every record in the vault store has a ciphertext that decodes
\* to a VaultData with credentials and settings, never to null.
C31_CiphertextIsVaultData ==
    \A id \in DOMAIN store : WellFormed(store[id])

\* The session actions that write to the open vault.
LockedOutActions == SessionMutations \cup {"changeMasterPassword"}

\* C32 as claimed: a mutating session action invoked while isLocked is true
\* ends with an error, and the vault store is then as it was when the action
\* was invoked.
C32_LockedRejectsMutations ==
    [][\A p \in Procs :
          ( /\ calls'[p].pc = "done"
            /\ calls'[p] # calls[p]
            /\ calls'[p].action \in LockedOutActions
            /\ calls'[p].cap.isLocked )
          => /\ calls'[p].status = "error"
             /\ store' = calls'[p].pre]_vars

\* C33 as claimed: whenever the session is unlocked on a vault and none of
\* its actions is in flight, openVault with the cached masterPassword
\* succeeds on the persisted record of currentVault.
C33_CachedPasswordOpens ==
    ( /\ ~isLocked
      /\ currentVault # NullVault
      /\ Quiescent )
    => OpenResult(store, currentVault.id, masterPassword).err = NoError

\* The VaultData under the ciphertext of the persisted record of currentVault.
PersistedData ==
    JSONParse(Base64ToArrayBuffer(store[currentVault.id].encryptedData).text)

\* C34 as claimed: whenever the session is unlocked on a vault and none of
\* its actions is in flight, the record of currentVault is in the store and
\* the cached vaultData reads, member by member, as the VaultData under the
\* record's ciphertext; also when two credential or settings actions were
\* started before either finished.
C34_CacheMatchesStore ==
    ( /\ ~isLocked
      /\ currentVault # NullVault
      /\ Quiescent )
    => /\ currentVault.id \in DOMAIN store
       /\ SameData(vaultData, PersistedData)

\* The ids of the timeouts that are pending.
PendingIds == {t.id : t \in timers}

\* The ids a timeout can have in a run.
TimerIds == {<<1>>, <<2>>, <<3>>}

\* C35: whenever the session is unlocked on a vault and the settings'
\* autoLockTimeout is positive, exactly one timeout is pending, and none is
\* pending while the session is locked; the callback of a timeout leaves the
\* session locked with vaultData and masterPassword null; and every pending
\* timeout eventually fires unless a change of currentVault, isLocked or
\* autoLockTimeout clears it first.
C35_AutoLock ==
    /\ []( /\ ( ~isLocked /\ currentVault # NullVault
                /\ appSettings.autoLockTimeout > 0 )
              => Cardinality(timers) = 1
           /\ isLocked => timers = {}
           /\ PendingIds \subseteq TimerIds )
    /\ [][FireTimer => ( /\ isLocked'
                         /\ vaultData' = NullData
                         /\ masterPassword' = NullPassword
                         /\ timers' = {} )]_vars
    /\ \A id \in TimerIds : (id \in PendingIds) ~> (id \notin PendingIds)

\* The callback of the auto-lock timeout has run: the session is locked on
\* its vault with nothing pending, and autoLockTimer still holds the id of
\* the timeout that fired, which lockVault itself would have cleared.
C35_Witness ==
    /\ isLocked
    /\ currentVault # NullVault
    /\ vaultData = NullData
    /\ masterPassword = NullPassword
    /\ timers = {}
    /\ autoLockTimer # NullTimer

\* The session is unlocked and its one pending timeout, set by a later run
\* of the effect than the first, has its time elapsed.
C35_WitnessRearmed ==
    /\ ~isLocked
    /\ currentVault # NullVault
    /\ \E t \in timers : t.left = 0 /\ t.captured # NullTimer

\* C36 as claimed: when a credential or settings action of the session
\* completes on the open vault, the auto-lock countdown starts again: the
\* pending timeout then has the whole autoLockTimeout ahead of it.
C36_ActivityRestartsCountdown ==
    [][\A p \in Procs :
          ( /\ Succeeds(p)
            /\ calls[p].action \in {"addCredential", "updateCredential",
                                    "deleteCredential", "updateVaultSettings"}
            /\ ~isLocked' )
          => \A t \in timers' : t.left = appSettings'.autoLockTimeout]_vars

\* C37: when the session's deleteVault(id) ends, made with no other action
\* in flight: if the removal succeeded, the store holds no record under id
\* and, when id was the current vault, the session is locked with
\* currentVault, vaultData and masterPassword null, and otherwise
\* currentVault, vaultData, masterPassword and isLocked are as they were; if
\* the removal failed, those four and the store are as they were, error is
\* set and the storage error is thrown to the caller.
C37_SessionDeleteVault ==
    [][\A p \in Procs :
          ( /\ Finishes(p)
            /\ calls[p].action = "deleteVault"
            /\ calls'[p].alone )
          => IF calls'[p].status = "ok"
             THEN /\ calls[p].id \notin DOMAIN store'
                  /\ IF currentVault # NullVault /\ currentVault.id = calls[p].id
                     THEN /\ isLocked'
                          /\ currentVault' = NullVault
                          /\ vaultData' = NullData
                          /\ masterPassword' = NullPassword
                     ELSE <<currentVault, vaultData, masterPassword, isLocked>>'
                             = <<currentVault, vaultData, masterPassword, isLocked>>
             ELSE /\ <<currentVault, vaultData, masterPassword, isLocked>>'
                        = <<currentVault, vaultData, masterPassword, isLocked>>
                  /\ store' = store
                  /\ error' = "Failed to delete vault"
                  /\ calls'[p].err = ErrDelete]_vars

\* The session's deleteVault of a vault other than the open one has
\* resolved, and the session is still open on its vault, whose record is
\* stored.
C37_Witness ==
    \E p \in Procs :
       /\ Done(p)
       /\ calls[p].action = "deleteVault"
       /\ calls[p].status = "ok"
       /\ SessionOpen
       /\ currentVault.id # calls[p].id
       /\ calls[p].id \in DOMAIN calls[p].pre
       /\ currentVault.id \in DOMAIN store

\* The session's deleteVault of the open vault has resolved: the session is
\* locked on no vault and the record is gone.
C37_WitnessCurrent ==
    \E p \in Procs :
       /\ Done(p)
       /\ calls[p].action = "deleteVault"
       /\ calls[p].status = "ok"
       /\ calls[p].cap.currentVault # NullVault
       /\ calls[p].cap.currentVault.id = calls[p].id
       /\ ~calls[p].cap.isLocked
       /\ isLocked
       /\ currentVault = NullVault
       /\ calls[p].id \notin DOMAIN store

\* The session's deleteVault of the open vault has failed, and the session
\* is still open on it.
C37_WitnessFailed ==
    \E p \in Procs :
       /\ Done(p)
       /\ calls[p].action = "deleteVault"
       /\ calls[p].status = "error"
       /\ SessionOpen
       /\ currentVault.id = calls[p].id
       /\ error = "Failed to delete vault"

\* The settings the finished call c saved: the argument of saveSettings, or
\* the settings member of the backup imported.
SavedSettings(c) == IF c.op = "saveSettings" THEN c.patch ELSE c.backup.settings

\* C38 as claimed: the settings store never holds a record under a key other
\* than 'app-settings', so at most one; and when a saveSettings, or an
\* importData of a backup with settings, returns, getSettings gives a
\* record with the members of the settings just saved.
C38_SettingsSingleton ==
    /\ [](DOMAIN settingsStore \subseteq {AppSettingsId})
    /\ [][\A p \in Procs :
             ( /\ Succeeds(p)
               /\ calls[p].op \in {"saveSettings", "importData"}
               /\ SavedSettings(calls[p]) # NullSettings )
             => LET saved == SavedSettings(calls[p]) IN
                /\ GetSettings(settingsStore') # NullSettings
                /\ \A k \in (DOMAIN saved) \ {"id"} :
                      Read(GetSettings(settingsStore'), k) = saved[k]]_vars

\* The credentials under the ciphertext of a persisted record.
StoredCredentials(encryptedVault) ==
    LET text == Base64ToArrayBuffer(encryptedVault.encryptedData).text
    IN  IF text.json = "object" THEN text.credentials ELSE <<>>

\* C39: with calls made one after the other and a clock that does not go
\* back, every persisted record has createdAt <= lastModified <=
\* lastAccessed and every credential in it has createdAt <= lastModified;
\* and from one state to the next a record that stays in the store keeps
\* its createdAt, and its lastModified and lastAccessed do not decrease.
C39_TimestampsOrdered ==
    /\ [](\A id \in DOMAIN store :
             /\ store[id].createdAt <= store[id].lastModified
             /\ store[id].lastModified <= store[id].lastAccessed
             /\ \A i \in DOMAIN StoredCredentials(store[id]) :
                   StoredCredentials(store[id])[i].createdAt
                      <= StoredCredentials(store[id])[i].lastModified)
    /\ [][\A id \in (DOMAIN store) \cap (DOMAIN store') :
             /\ store'[id].createdAt = store[id].createdAt
             /\ store'[id].lastModified >= store[id].lastModified
             /\ store'[id].lastAccessed >= store[id].lastAccessed]_vars

\* A record created at time 0 was modified later, and holds a credential
\* added at time 0 and updated later.
C39_Witness ==
    \E id \in DOMAIN store :
       /\ store[id].createdAt = 0
       /\ store[id].lastModified > 0
       /\ \E i \in DOMAIN StoredCredentials(store[id]) :
             /\ StoredCredentials(store[id])[i].createdAt = 0
             /\ StoredCredentials(store[id])[i].lastModified > 0

\* A record created at time 0 and not modified since was opened later.
C39_WitnessOpened ==
    \E id \in DOMAIN store :
       /\ store[id].createdAt = 0
       /\ store[id].lastModified = 0
       /\ store[id].lastAccessed > 0

\* C40 as claimed: when a storage operation has resolved or rejected and
\* its transaction has ended, every database handle the operation opened is
\* closed, whether its request succeeded or failed.
C40_HandlesClosed ==
    \A p \in Procs :
       ( Done(p) /\ calls[p].op \in StorageOps ) => calls[p].db = 0

====
